---- MODULE Spec2Model ----
(***************************************************************************)
(* Model of the Garmin Connect activity exporter: the file ledger          *)
(* (source/file_manager), the filename codec (per_activity.py) and the     *)
(* export pass with its rolling watermark (source/exporter.py).            *)
(*                                                                         *)
(* Strings that the code takes apart (activity names, type keys, file      *)
(* names) are sequences of one-character strings.  A datetime is a record  *)
(* [t, aware]: t the instant, aware whether it carries a timezone; python  *)
(* refuses to order a naive datetime against an aware one.                 *)
(***************************************************************************)
EXTENDS Integers, Sequences, FiniteSets, TLC

\* ------------------------------------------------------------------ bounds
\* number of activities the upstream account can hold
NumActs == 2
\* upstream edits of an activity's payload in one behaviour
MaxEdits == 1
\* wall-clock instants are 0..MaxTime
MaxTime == 3
\* export passes (cron iterations) in one behaviour
MaxPasses == 3
\* process restarts in one behaviour
MaxRestarts == 1
\* ledger calls in one behaviour of the ledger specification
MaxOps == 3

\* cron triggers that fire in a run of the scheduler
MaxTriggers == 2

\* ------------------------------------------------------- program constants
\* [:50] in _sanitize_filename_component
MaxNameLen == 50
\* Optional[ActivityId] None; `if not x` also takes 0 as absent
NoId == 0

\* ------------------------------------------------------------- file types
ACTIVITY_JSON == "activity_json"
GPX == "gpx"
TCX == "tcx"
KML == "kml"
CSV == "csv"

\* the members of the FileType enum, in declaration order
FileTypeOrder == <<ACTIVITY_JSON, GPX, TCX, KML, CSV>>

FileType == {FileTypeOrder[i] : i \in 1..Len(FileTypeOrder)}

\* FileType.suffix, as characters
Suffix(ft) ==
  CASE ft = ACTIVITY_JSON -> <<"j","s","o","n">>
    [] ft = GPX -> <<"g","p","x">>
    [] ft = TCX -> <<"t","c","x">>
    [] ft = KML -> <<"k","m","l">>
    [] ft = CSV -> <<"c","s","v">>

\* the GPS kinds from the last member of the enum to the first
gps_file_types_reversed == <<CSV, KML, TCX, GPX>>

\* FileType.gps_file_types(): every member but ACTIVITY_JSON, in enum order
gps_file_types == SelectSeq(FileTypeOrder, LAMBDA ft : ft # ACTIVITY_JSON)

\* ------------------------------------------------------------- characters
Digits == <<"0","1","2","3","4","5","6","7","8","9">>

\* str.isalnum() on the characters the model uses
IsAlnum(c) ==
  c \in {"a","b","c","r","u","n","m","e","d","A","Z","x"}
       \cup {Digits[i] : i \in 1..Len(Digits)}

\* decimal digits of a small natural number (str(int))
RECURSIVE IntToStr(_)
IntToStr(n) ==
  IF n < 10 THEN <<Digits[n + 1]>>
  ELSE IntToStr(n \div 10) \o <<Digits[(n % 10) + 1]>>

IsDigit(c) == \E i \in 1..Len(Digits) : Digits[i] = c

DigitVal(c) == (CHOOSE i \in 1..Len(Digits) : Digits[i] = c) - 1

\* int(token): ok iff the token is a non-empty run of decimal digits
RECURSIVE StrToIntAcc(_, _)
StrToIntAcc(s, acc) ==
  IF s = <<>> THEN acc
  ELSE StrToIntAcc(Tail(s), acc * 10 + DigitVal(Head(s)))

ParseInt(s) ==
  IF s # <<>> /\ \A i \in 1..Len(s) : IsDigit(s[i])
  THEN [ok |-> TRUE, val |-> StrToIntAcc(s, 0)]
  ELSE [ok |-> FALSE, val |-> 0]

\* str.split(sep): the runs of s between two separators, empty runs
\* included; the k-th run lies between the (k-1)-th and the k-th separator
SplitAt(s, sep) ==
  LET at == {i \in 1..Len(s) : s[i] = sep}
      nth(k) == IF k = 0 THEN 0
                ELSE IF k > Cardinality(at) THEN Len(s) + 1
                ELSE CHOOSE i \in at : Cardinality({j \in at : j < i}) = k - 1
  IN [k \in 1..(Cardinality(at) + 1) |-> SubSeq(s, nth(k - 1) + 1, nth(k) - 1)]

\* str.split('_')
Split(s) == SplitAt(s, "_")

\* ------------------------------------------------------ filename codec
\* name.replace('/', '_').replace('\\', '_')
ReplaceSeparators(s) ==
  [i \in 1..Len(s) |-> IF s[i] \in {"/", "\\"} THEN "_" ELSE s[i]]

\* ''.join(c for c in s if c.isalnum() or c in (' ', '-', '_'))
KeepSafe(s) == SelectSeq(s, LAMBDA c : IsAlnum(c) \/ c \in {" ", "-", "_"})

\* str.strip(): after KeepSafe the only white space left is ' '
RECURSIVE LStrip(_)
LStrip(s) == IF s # <<>> /\ Head(s) = " " THEN LStrip(Tail(s)) ELSE s

RECURSIVE RStrip(_)
RStrip(s) ==
  IF s # <<>> /\ s[Len(s)] = " " THEN RStrip(SubSeq(s, 1, Len(s) - 1)) ELSE s

Strip(s) == RStrip(LStrip(s))

\* s.replace(' ', '_')[:50]
SpacesToUnderscore(s) == [i \in 1..Len(s) |-> IF s[i] = " " THEN "_" ELSE s[i]]

\* the name kept at its full length
keep_whole(s) == s

Truncate(s) == IF Len(s) > MaxNameLen THEN SubSeq(s, 1, MaxNameLen) ELSE s

Unnamed == <<"u","n","n","a","m","e","d">>

\* ActivityFileManager._sanitize_filename_component
sanitize_filename_component(name) ==
  LET s == Truncate(SpacesToUnderscore(Strip(KeepSafe(ReplaceSeparators(name)))))
  IN IF s = <<>> THEN Unnamed ELSE s

\* a start time format with '_' between its fields
format_start_time_underscored(dt) == IntToStr(dt.t) \o <<"_">> \o IntToStr(dt.t)

\* ActivityFileManager._format_start_time: strftime drops the timezone
format_start_time(dt) == IntToStr(dt.t)

ACTIVITY_MARKER == <<"a","c","t","i","v","i","t","y">>

\* a path below the download directory: <download_directory>/dir/name
MkPath(dir, fname) == [dir |-> dir, name |-> fname]

\* ---------------------------------------------------------------- activity
\* datetime values; python orders two datetimes only if both are aware or
\* both are naive, and raises TypeError otherwise
Aware(t) == [t |-> t, aware |-> TRUE]

Naive(t) == [t |-> t, aware |-> FALSE]

Comparable(x, y) == x.aware = y.aware

\* Activity._get_activity_date: strptime(...).replace(tzinfo=utc)
get_activity_date(response) == Aware(response.startTimeGMT)

\* Activity.from_api_response
from_api_response(response) ==
  [raw |-> response,
   id |-> response.activityId,
   name |-> response.activityName,
   type |-> response.typeKey,
   start_time_gmt |-> get_activity_date(response),
   hasPolyline |-> response.hasPolyline]

\* Activity.dump: json.dumps(raw, indent=2, sort_keys=True), the key/value
\* pairs in sorted key order
dump(activity) ==
  <<<<"activityId", activity.raw.activityId>>,
    <<"activityName", activity.raw.activityName>>,
    <<"activityType.typeKey", activity.raw.typeKey>>,
    <<"averageHR", activity.raw.averageHR>>,
    <<"hasPolyline", activity.raw.hasPolyline>>,
    <<"startTimeGMT", activity.raw.startTimeGMT>>>>

\* bytes of a GPS export (never empty when written)
GpsBytes(ft) == <<<<"gps", ft>>>>

\* ------------------------------------------------------ per-activity record
\* ActivityFileManager(activity_id, download_file_types)
ActivityFileManager(id, fts) == [activity_id |-> id, download_file_types |-> fts]

NoName == <<>>

\* ActivityFileManager.format_into_filename
format_into_filename(afm, activity, file_type) ==
  IF activity.id # afm.activity_id
  THEN [ok |-> FALSE, name |-> NoName]
  ELSE IF file_type \notin afm.download_file_types
  THEN [ok |-> FALSE, name |-> NoName]
  ELSE [ok |-> TRUE,
        name |-> format_start_time(activity.start_time_gmt) \o <<"_">>
                 \o ACTIVITY_MARKER \o <<"_">> \o IntToStr(activity.id)
                 \o <<"_">> \o activity.type \o <<"_">>
                 \o sanitize_filename_component(activity.name)
                 \o <<".">> \o Suffix(file_type)]

\* pathlib's PurePath.suffix: from the last dot, unless the name starts or
\* ends with it
RECURSIVE LastDot(_, _)
LastDot(s, i) == IF i = 0 THEN 0 ELSE IF s[i] = "." THEN i ELSE LastDot(s, i - 1)

PathSuffix(name) ==
  LET i == LastDot(name, Len(name))
  IN IF i > 1 /\ i < Len(name) THEN SubSeq(name, i, Len(name)) ELSE <<>>

\* create_from_file_path without the test of the extension (lines 60-61)
create_from_any_extension(file_path, file_type) ==
  LET parts == Split(file_path.name)
  IN IF Len(parts) < 3 \/ parts[2] # ACTIVITY_MARKER
     THEN [ok |-> FALSE, afm |-> ActivityFileManager(NoId, {})]
     ELSE IF ~ParseInt(parts[3]).ok
     THEN [ok |-> FALSE, afm |-> ActivityFileManager(NoId, {})]
     ELSE [ok |-> TRUE, afm |-> ActivityFileManager(ParseInt(parts[3]).val, {file_type})]

\* ActivityFileManager.create_from_file_path
create_from_file_path(file_path, file_type) ==
  LET parts == Split(file_path.name)
  IN IF PathSuffix(file_path.name) # <<".">> \o Suffix(file_type)
     THEN [ok |-> FALSE, afm |-> ActivityFileManager(NoId, {})]
     ELSE IF Len(parts) < 3 \/ parts[2] # ACTIVITY_MARKER
     THEN [ok |-> FALSE, afm |-> ActivityFileManager(NoId, {})]
     ELSE IF ~ParseInt(parts[3]).ok
     THEN [ok |-> FALSE, afm |-> ActivityFileManager(NoId, {})]
     ELSE [ok |-> TRUE, afm |-> ActivityFileManager(ParseInt(parts[3]).val, {file_type})]

\* ------------------------------------------------------------- the ledger
\* The ledger FileManager.downloaded_activities is a function from the
\* tracked activity IDs to their ActivityFileManager; the download directory
\* is a function from the paths of its files to their bytes.

NoPath == MkPath("", <<>>)

Range(f) == {f[x] : x \in DOMAIN f}

Restrict(f, S) == [x \in S |-> f[x]]

\* characters of the junk names below, lower-cased (str.lower)
Lower(c) ==
  CASE c = "T" -> "t" [] c = "M" -> "m" [] c = "P" -> "p" [] c = "B" -> "b"
    [] c = "A" -> "a" [] c = "K" -> "k" [] c = "S" -> "s" [] c = "W" -> "w"
    [] c = "D" -> "d" [] c = "E" -> "e" [] c = "Z" -> "z"
    [] OTHER -> c

LowerStr(s) == [i \in 1..Len(s) |-> Lower(s[i])]

ignored_filenames ==
  {<<".","D","S","_","S","t","o","r","e">>, <<"T","h","u","m","b","s",".","d","b">>,
   <<".","g","i","t","k","e","e","p">>, <<".","g","i","t","i","g","n","o","r","e">>}

ignored_extensions ==
  {<<".","t","m","p">>, <<".","t","e","m","p">>, <<".","s","w","p">>, <<".","b","a","k">>}

\* a test that ignores no file
should_ignore_nothing(file_path) == FALSE

\* FileManager.should_ignore_file
should_ignore_file(file_path) ==
  \/ file_path.name \in ignored_filenames
  \/ LowerStr(PathSuffix(file_path.name)) \in ignored_extensions

\* add_preexisting_file that replaces the record of the ID by the new one
add_preexisting_replacing(da, file_path) ==
  IF should_ignore_file(file_path) THEN [tag |-> "ok", da |-> da]
  ELSE IF file_path.dir \notin FileType THEN [tag |-> "ValueError", da |-> da]
  ELSE LET made == create_from_file_path(file_path, file_path.dir)
           id == made.afm.activity_id
       IN IF ~made.ok THEN [tag |-> "ValueError", da |-> da]
          ELSE [tag |-> "ok",
                da |-> [x \in DOMAIN da \cup {id} |-> IF x = id THEN made.afm ELSE da[x]]]

\* FileManager.add_preexisting_file: [tag, da]
add_preexisting_file(da, file_path) ==
  IF should_ignore_file(file_path) THEN [tag |-> "ok", da |-> da]
  ELSE IF file_path.dir \notin FileType THEN [tag |-> "ValueError", da |-> da]
  ELSE LET made == create_from_file_path(file_path, file_path.dir)
           id == made.afm.activity_id
       IN IF ~made.ok THEN [tag |-> "ValueError", da |-> da]
          ELSE IF id \notin DOMAIN da
          THEN [tag |-> "ok",
                da |-> [x \in DOMAIN da \cup {id} |-> IF x = id THEN made.afm ELSE da[x]]]
          ELSE [tag |-> "ok",
                da |-> [da EXCEPT ![id].download_file_types = @ \cup {file_path.dir}]]

\* FileManager._retrieve_download_path: [ok, path]
retrieve_download_path(da, activity, file_type) ==
  IF activity.id \notin DOMAIN da THEN [ok |-> FALSE, path |-> NoPath]
  ELSE LET f == format_into_filename(da[activity.id], activity, file_type)
       IN IF f.ok THEN [ok |-> TRUE, path |-> MkPath(file_type, f.name)]
          ELSE [ok |-> FALSE, path |-> NoPath]

\* a record made for the activity without the kind added to it
record_without_the_kind(da, activity_id, file_type) ==
  [x \in DOMAIN da \cup {activity_id} |->
     IF x \in DOMAIN da THEN da[x] ELSE ActivityFileManager(activity_id, {})]

\* FileManager._record_download_path
record_download_path(da, activity_id, file_type) ==
  LET made == [x \in DOMAIN da \cup {activity_id} |->
                 IF x \in DOMAIN da THEN da[x] ELSE ActivityFileManager(activity_id, {})]
  IN [made EXCEPT ![activity_id].download_file_types = @ \cup {file_type}]

\* the `return None` of record_and_retrieve_download_path
Skipped(da) == [tag |-> "None", path |-> NoPath, da |-> da]

\* an exception leaving record_and_retrieve_download_path
Raised(what, da) == [tag |-> what, path |-> NoPath, da |-> da]

\* every GPS kind gated on the polyline
needs_polyline_every_gps(file_type) ==
  \E i \in 1..Len(gps_file_types) : gps_file_types[i] = file_type

\* line 106: the kinds that are only downloaded for an activity with a polyline
needs_polyline(file_type) == file_type = GPX \/ file_type = TCX

\* the first test of record_and_retrieve_download_path never taken
already_downloaded_never(da, activity, file_type) == FALSE

\* the first test of record_and_retrieve_download_path
already_downloaded(da, activity, file_type) ==
  activity.id \in DOMAIN da /\ file_type \in da[activity.id].download_file_types

\* a decide that records the kind (line 110) before it applies the tests
record_before_the_tests(da, cfg, now_utc, activity, file_type) ==
  LET da2 == record_download_path(da, activity.id, file_type)
      got == retrieve_download_path(da2, activity, file_type)
  IN IF already_downloaded(da, activity, file_type) THEN Skipped(da)
     ELSE IF \/ activity.id \in cfg.excluded_activity_ids
             \/ activity.type \in cfg.excluded_activity_types
             \/ file_type \in cfg.excluded_file_types
          THEN Skipped(da2)
     ELSE IF \E d \in cfg.start_date \cup cfg.end_date :
               ~Comparable(activity.start_time_gmt, d)
          THEN Raised("TypeError", da2)
     ELSE IF \/ \E sd \in cfg.start_date : activity.start_time_gmt.t < sd.t
             \/ \E ed \in cfg.end_date : activity.start_time_gmt.t > ed.t
             \/ \E age \in cfg.minimum_activity_age :
                   activity.start_time_gmt.t > now_utc - age
             \/ (needs_polyline(file_type) /\ ~activity.hasPolyline)
          THEN Skipped(da2)
     ELSE IF got.ok THEN [tag |-> "path", path |-> got.path, da |-> da2]
          ELSE Raised("ValueError", da2)

\* FileManager.record_and_retrieve_download_path: [tag, path, da] with tag
\* "path" (a path is returned), "None", or the exception raised
record_and_retrieve_download_path(da, cfg, now_utc, activity, file_type) ==
  IF already_downloaded(da, activity, file_type)
  THEN Skipped(da)
  ELSE IF activity.id \in cfg.excluded_activity_ids THEN Skipped(da)
  ELSE IF activity.type \in cfg.excluded_activity_types THEN Skipped(da)
  ELSE IF file_type \in cfg.excluded_file_types THEN Skipped(da)
  ELSE IF \E sd \in cfg.start_date : ~Comparable(activity.start_time_gmt, sd)
  THEN Raised("TypeError", da)
  ELSE IF \E sd \in cfg.start_date : activity.start_time_gmt.t < sd.t THEN Skipped(da)
  ELSE IF \E ed \in cfg.end_date : ~Comparable(activity.start_time_gmt, ed)
  THEN Raised("TypeError", da)
  ELSE IF \E ed \in cfg.end_date : activity.start_time_gmt.t > ed.t THEN Skipped(da)
  ELSE IF \E age \in cfg.minimum_activity_age :
            activity.start_time_gmt.t > now_utc - age
  THEN Skipped(da)
  ELSE IF needs_polyline(file_type) /\ ~activity.hasPolyline THEN Skipped(da)
  ELSE LET da2 == record_download_path(da, activity.id, file_type)
           got == retrieve_download_path(da2, activity, file_type)
       IN IF got.ok THEN [tag |-> "path", path |-> got.path, da |-> da2]
          ELSE Raised("ValueError", da2)

\* mark_activity_as_redownloadable without the unlink of line 123
mark_without_unlink(da, files, activity) ==
  IF activity.id \notin DOMAIN da
  THEN [tag |-> "ValueError", da |-> da, fs |-> files]
  ELSE [tag |-> "ok",
        da |-> [da EXCEPT ![activity.id].download_file_types = {}],
        fs |-> files]

\* a mark that empties the set of every tracked activity
mark_every_activity(da, files, activity) ==
  IF activity.id \notin DOMAIN da
  THEN [tag |-> "ValueError", da |-> da, fs |-> files]
  ELSE [tag |-> "ok",
        da |-> [x \in DOMAIN da |-> ActivityFileManager(x, {})],
        fs |-> Restrict(files, {q \in DOMAIN files : FALSE})]

\* a mark that starts tracking an activity it does not know
mark_tracking_the_activity(da, files, activity) ==
  [tag |-> "ok",
   da |-> [x \in DOMAIN da \cup {activity.id} |-> ActivityFileManager(x, {})],
   fs |-> files]

\* FileManager.mark_activity_as_redownloadable: [tag, da, fs]
mark_activity_as_redownloadable(da, files, activity) ==
  IF activity.id \notin DOMAIN da
  THEN [tag |-> "ValueError", da |-> da, fs |-> files]
  ELSE LET kinds == da[activity.id].download_file_types
           paths == {retrieve_download_path(da, activity, ft).path : ft \in kinds}
       IN IF \E ft \in kinds : ~retrieve_download_path(da, activity, ft).ok
          THEN [tag |-> "ValueError", da |-> da, fs |-> files]
          ELSE [tag |-> "ok",
                da |-> [da EXCEPT ![activity.id].download_file_types = {}],
                fs |-> Restrict(files, DOMAIN files \ paths)]

\* a missing metadata file taken as no change
missing_file_is_no_change(da, files, activity) ==
  [tag |-> "ok", da |-> da, fs |-> files]

\* lines 138-141: a missing metadata file is a change
missing_file_is_a_change(da, files, activity) ==
  mark_activity_as_redownloadable(da, files, activity)

\* a check that marks whatever it finds
check_always_marks(da, files, activity) ==
  IF activity.id \notin DOMAIN da THEN [tag |-> "ok", da |-> da, fs |-> files]
  ELSE mark_activity_as_redownloadable(da, files, activity)

\* FileManager.check_for_activity_changes: [tag, da, fs]
check_for_activity_changes(da, files, activity) ==
  IF activity.id \notin DOMAIN da THEN [tag |-> "ok", da |-> da, fs |-> files]
  ELSE IF ACTIVITY_JSON \notin da[activity.id].download_file_types
  THEN [tag |-> "ok", da |-> da, fs |-> files]
  ELSE LET existing == retrieve_download_path(da, activity, ACTIVITY_JSON)
       IN IF ~existing.ok THEN [tag |-> "ValueError", da |-> da, fs |-> files]
          ELSE IF existing.path \notin DOMAIN files
          THEN missing_file_is_a_change(da, files, activity)
          ELSE IF dump(activity) = files[existing.path]
          THEN [tag |-> "ok", da |-> da, fs |-> files]
          ELSE mark_activity_as_redownloadable(da, files, activity)

\* FileManager built by Exporter.__init__ and filled by
\* _precompute_downloaded_activities: add_preexisting_file for every file
\* of the download directory (every file there is one the exporter wrote)
\* a prescan that reads no file
precompute_nothing(da, paths) == da

RECURSIVE precompute_downloaded_activities(_, _)
precompute_downloaded_activities(da, paths) ==
  IF paths = {} THEN da
  ELSE LET p == CHOOSE q \in paths : TRUE
       IN precompute_downloaded_activities(add_preexisting_file(da, p).da, paths \ {p})

\* ------------------------------------------------------------ configuration
\* FileManagerConfig; an Optional field is the empty set or a singleton
FileManagerConfig(ids, types, kinds, start_date, end_date, age) ==
  [excluded_activity_ids |-> ids, excluded_activity_types |-> types,
   excluded_file_types |-> kinds, start_date |-> start_date,
   end_date |-> end_date, minimum_activity_age |-> age]

NoFilter == FileManagerConfig({}, {}, {}, {}, {}, {})

\* Config: the fields the export pass reads
Config(batch_size, check, always, fm) ==
  [batch_size |-> batch_size, check_for_activity_changes |-> check,
   always_recheck_all_activities |-> always, file_manager_config |-> fm]

\* the type keys and names the upstream account uses
TypeRun == <<"r">>
TypeCycling == <<"c">>
Types == {TypeRun, TypeCycling}
NameRun == <<"r","u","n">>
Names == {NameRun, <<"r","u","n","!">>, <<"a","/","b">>}

\* only GPX left of the GPS kinds (EXCLUDED_FILE_TYPES=tcx,kml,csv)
OnlyGpx == {TCX, KML, CSV}

\* policies as Config.from_environment builds them: START_DATE and END_DATE
\* are parsed by strptime without a timezone
EnvPolicies ==
  {NoFilter,
   FileManagerConfig({}, {}, OnlyGpx, {}, {}, {}),
   FileManagerConfig({}, {}, OnlyGpx, {}, {}, {2}),
   FileManagerConfig({1}, {}, OnlyGpx, {}, {}, {}),
   FileManagerConfig({}, {TypeCycling}, OnlyGpx, {}, {}, {}),
   FileManagerConfig({}, {}, OnlyGpx, {Naive(2)}, {}, {})}

\* policies as the unit tests build them: bounds that carry a timezone
TestPolicies ==
  {FileManagerConfig({}, {}, {}, {Aware(2)}, {}, {}),
   FileManagerConfig({}, {}, {}, {}, {Aware(1)}, {}),
   FileManagerConfig({}, {}, {}, {}, {}, {1}),
   FileManagerConfig({1}, {TypeRun}, {}, {}, {}, {}),
   FileManagerConfig({}, {}, {GPX, CSV}, {}, {}, {})}

\* the configurations of the exporter: every batch size and flag for the
\* policies with one GPS kind, the default flags for the others
Configs ==
  {Config(b, c, a, fm) : b \in 1..2, c \in BOOLEAN, a \in BOOLEAN,
                          fm \in {FileManagerConfig({}, {}, OnlyGpx, {}, {}, {})}}
  \cup {Config(1, TRUE, FALSE, fm) : fm \in EnvPolicies \ {NoFilter}}

\* ------------------------------------------------- configuration loading
\* An environment value is a sequence of characters; an unset variable and
\* an empty one are both <<>> wherever the code tests `if not env_value`.

\* [t.strip() for t in value.split(',') if t.strip()]
StrippedTokens(s) ==
  LET raw == SplitAt(s, ",")
      stripped == [i \in 1..Len(raw) |-> Strip(raw[i])]
  IN SelectSeq(stripped, LAMBDA t : t # <<>>)

\* FileType.value, character by character
FileTypeValue(ft) ==
  CASE ft = ACTIVITY_JSON -> <<"a","c","t","i","v","i","t","y","_","j","s","o","n">>
    [] ft = GPX -> <<"g","p","x">>
    [] ft = TCX -> <<"t","c","x">>
    [] ft = KML -> <<"k","m","l">>
    [] ft = CSV -> <<"c","s","v">>

\* value.lower() in ('true', '1', 'yes', 'on')
Truthy(s) ==
  LowerStr(s) \in {<<"t","r","u","e">>, <<"1">>, <<"y","e","s">>, <<"o","n">>}

\* the result of a parser that may raise ValueError
Parsed(val) == [ok |-> TRUE, val |-> val]
ValueError == [ok |-> FALSE, val |-> {}]

\* a date that cannot be read taken as the first day
parse_date_env_or_first_day(env_value, is_end_date) ==
  IF env_value = <<>> THEN {}
  ELSE IF ParseInt(env_value).ok THEN {Naive(ParseInt(env_value).val)}
  ELSE {Naive(0)}

\* _parse_date_env: strptime gives a datetime without a timezone; a value
\* that matches neither format is warned about and dropped. An instant of the
\* model is a whole day, so the end-of-day time of an end date stays in it.
parse_date_env(env_value, is_end_date) ==
  IF env_value = <<>> THEN {}
  ELSE IF ParseInt(env_value).ok THEN {Naive(ParseInt(env_value).val)}
  ELSE {}

\* a duration that cannot be read taken as no duration, as the dates are
parse_duration_env_or_none(env_value) ==
  IF env_value = <<>> THEN Parsed({})
  ELSE IF ParseInt(env_value).ok THEN Parsed({ParseInt(env_value).val})
  ELSE Parsed({})

\* _parse_duration_env: parse_timespan of a plain number is that many units;
\* a number with a minus sign is refused by parse_timespan (line 132) or by
\* the test of line 136, with ValueError both ways
parse_duration_env(env_value) ==
  IF env_value = <<>> THEN Parsed({})
  ELSE IF ParseInt(env_value).ok THEN Parsed({ParseInt(env_value).val})
  ELSE IF Head(env_value) = "-" /\ ParseInt(Tail(env_value)).ok THEN ValueError
  ELSE ValueError

\* line 66: a quote character in CRON_SCHEDULE
has_quotes(cron_schedule) ==
  \E i \in 1..Len(cron_schedule) : cron_schedule[i] \in {"\"", "'"}

\* croniter(cron_schedule) of line 70 returns: five fields of digits, stars,
\* steps, lists and ranges
croniter_accepts(cron_schedule) ==
  LET fields == SplitAt(cron_schedule, " ")
  IN /\ Len(fields) = 5
     /\ \A k \in 1..Len(fields) :
          /\ fields[k] # <<>>
          /\ \A i \in 1..Len(fields[k]) :
               IsDigit(fields[k][i]) \/ fields[k][i] \in {"*", "/", ",", "-"}

\* float(env_value) of line 88 returns: digits with at most one point
float_accepts(env_value) ==
  LET digits == SelectSeq(env_value, IsDigit)
      points == SelectSeq(env_value, LAMBDA c : c = ".")
  IN /\ digits # <<>>
     /\ Len(points) <= 1
     /\ Len(digits) + Len(points) = Len(env_value)

\* line 64: the default of CRON_SCHEDULE
DefaultCron == <<"0"," ","*","/","8"," ","*"," ","*"," ","*">>

\* lines 144-147: EXCLUDED_ACTIVITY_TYPES
parse_excluded_activity_types(env_value) ==
  LET toks == StrippedTokens(env_value) IN {toks[i] : i \in 1..Len(toks)}

\* lines 150-159: EXCLUDED_ACTIVITY_IDS, each token through int()
parse_excluded_activity_ids(env_value) ==
  LET toks == StrippedTokens(env_value)
  IN IF \A i \in 1..Len(toks) : ParseInt(toks[i]).ok
     THEN Parsed({ParseInt(toks[i]).val : i \in 1..Len(toks)})
     ELSE ValueError

\* the check of line 170 left out
parse_excluded_file_types_unguarded(env_value) ==
  LET toks == StrippedTokens(env_value)
      known(t) == \E ft \in FileType : FileTypeValue(ft) = t
  IN IF \E i \in 1..Len(toks) : ~known(toks[i]) THEN ValueError
     ELSE Parsed({ft \in FileType : \E i \in 1..Len(toks) : FileTypeValue(ft) = toks[i]})

\* lines 161-173: EXCLUDED_FILE_TYPES
parse_excluded_file_types(env_value) ==
  LET toks == StrippedTokens(env_value)
      known(t) == \E ft \in FileType : FileTypeValue(ft) = t
  IN IF \E i \in 1..Len(toks) :
          ~known(toks[i]) \/ toks[i] = FileTypeValue(ACTIVITY_JSON)
     THEN ValueError
     ELSE Parsed({ft \in FileType : \E i \in 1..Len(toks) : FileTypeValue(ft) = toks[i]})

\* os.environ, the variables the export reads
Environ(user, batch, check, always, ids, types, kinds, start, end, age) ==
  [GARMIN_USERNAME |-> user, BATCH_SIZE |-> batch,
   CHECK_FOR_ACTIVITY_CHANGES |-> check, ALWAYS_RECHECK_ALL_ACTIVITIES |-> always,
   EXCLUDED_ACTIVITY_IDS |-> ids, EXCLUDED_ACTIVITY_TYPES |-> types,
   EXCLUDED_FILE_TYPES |-> kinds, START_DATE |-> start, END_DATE |-> end,
   MIN_ACTIVITY_AGE |-> age,
   GARMIN_PASSWORD |-> <<"p">>, CRON_SCHEDULE |-> DefaultCron,
   REQUEST_DELAY_SECONDS |-> <<"1","0">>]

\* an environment with the credentials and nothing else of interest, for
\* the specifications that are given their Config directly
GivenEnviron ==
  Environ(<<"u">>, <<"1">>, <<"t","r","u","e">>, <<"f","a","l","s","e">>,
          <<>>, <<>>, <<>>, <<>>, <<>>, <<>>)

\* Config.from_environment: [ok, val], val the Config when ok, and not ok
\* when ValueError is raised
from_environment(env) ==
  LET batch == ParseInt(env.BATCH_SIZE)
      age == parse_duration_env(env.MIN_ACTIVITY_AGE)
      ids == parse_excluded_activity_ids(env.EXCLUDED_ACTIVITY_IDS)
      kinds == parse_excluded_file_types(env.EXCLUDED_FILE_TYPES)
  IN IF env.GARMIN_USERNAME = <<>> \/ env.GARMIN_PASSWORD = <<>> THEN ValueError
     ELSE IF has_quotes(env.CRON_SCHEDULE) THEN ValueError
     ELSE IF ~croniter_accepts(env.CRON_SCHEDULE) THEN ValueError
     ELSE IF ~float_accepts(env.REQUEST_DELAY_SECONDS) THEN ValueError
     ELSE IF ~batch.ok \/ ~age.ok \/ ~ids.ok \/ ~kinds.ok THEN ValueError
     ELSE Parsed(Config(batch.val,
                        Truthy(env.CHECK_FOR_ACTIVITY_CHANGES),
                        Truthy(env.ALWAYS_RECHECK_ALL_ACTIVITIES),
                        FileManagerConfig(ids.val,
                                          parse_excluded_activity_types(env.EXCLUDED_ACTIVITY_TYPES),
                                          kinds.val,
                                          parse_date_env(env.START_DATE, FALSE),
                                          parse_date_env(env.END_DATE, TRUE),
                                          age.val)))

\* ------------------------------------------------------------ scheduling
\* exporter.py 233: ThreadPoolExecutor(max_workers=1)
max_workers == 1

\* exporter.py 255: add_job(..., max_instances=1, coalesce=True)
max_instances == 1

\* the thread that called run_scheduled; the executor's threads are 1, 2, ...
MainThread == 0

Workers == 1..max_workers

\* run_scheduled as it is entered: no pass runs, no job is submitted
NoScheduler ==
  [phase |-> "enter", run_immediately |-> TRUE, passes |-> <<>>,
   instances |-> 0, queued |-> 0, fired |-> 0, skipped |-> 0]

\* ------------------------------------------------------------------- state
VARIABLES
  config,                        \* Exporter.config
  now,                           \* the wall clock (datetime.now)
  remote,                        \* the upstream feed: payloads, newest first
  edits,                         \* upstream edits so far
  downloaded_activities,         \* FileManager.downloaded_activities
  fs,                            \* the download directory: path -> bytes
  pc,                            \* where the exporter process is
  oldest_downloaded_activity_id, \* Exporter.oldest_downloaded_activity_id
  cron_iteration,                \* Exporter.cron_iteration
  restarts,                      \* process restarts so far
  pass,                          \* locals of download_all_activities_iteration
  hist,                          \* what the running pass did (observations)
  ops,                           \* ledger calls so far (ledger specification)
  ret,                           \* the last ledger call and what it returned
  handed,                        \* (id, kind) pairs handed a path since the
                                 \* last redownload mark of the id
  observed,                      \* the files add_preexisting_file was called for
  environ,                       \* os.environ of the process
  scheduler                      \* run_scheduled: its position, the scheduler
                                 \* it builds and the threads inside a pass

vars == <<config, environ, scheduler, now, remote, edits, downloaded_activities, fs, pc,
          oldest_downloaded_activity_id, cron_iteration, restarts, pass, hist,
          ops, ret, handed, observed>>

envVars == <<now, remote, edits, environ, scheduler>>

ledgerCallVars == <<ops, ret, handed, observed>>

exporterVars == <<pc, oldest_downloaded_activity_id, cron_iteration, restarts,
                  pass, hist>>

\* ---------------------------------------------------------------- upstream
\* the payload the account holds for a new activity: IDs grow with time and
\* activity i starts at instant i
BasePayload(i) ==
  [activityId |-> i, activityName |-> NameRun, typeKey |-> TypeRun,
   startTimeGMT |-> i, hasPolyline |-> TRUE, averageHR |-> 0]

\* the payloads that differ from r in exactly one field
OneFieldEdits(r) ==
  ({[r EXCEPT !.activityName = n] : n \in Names}
   \cup {[r EXCEPT !.typeKey = t] : t \in Types}
   \cup {[r EXCEPT !.startTimeGMT = t] : t \in 1..NumActs}
   \cup {[r EXCEPT !.hasPolyline = b] : b \in BOOLEAN}
   \cup {[r EXCEPT !.averageHR = h] : h \in 0..1}) \ {r}

\* the activity as the API returns it now
RemoteActivity(k) == from_api_response(remote[k])

\* the user edits one field of an activity in the account
UpstreamEdit ==
  /\ edits < MaxEdits
  /\ \E k \in 1..Len(remote) : \E r \in OneFieldEdits(remote[k]) :
       remote' = [remote EXCEPT ![k] = r]
  /\ edits' = edits + 1
  /\ UNCHANGED <<config, now, downloaded_activities, fs, environ, scheduler>>

\* the user records a new activity: it gets the next ID, heads the feed
UpstreamNew ==
  /\ Len(remote) < NumActs
  /\ remote' = <<BasePayload(Len(remote) + 1)>> \o remote
  /\ now' = IF now < Len(remote) + 1 THEN Len(remote) + 1 ELSE now
  /\ UNCHANGED <<config, edits, downloaded_activities, fs, environ, scheduler>>

\* time passes; only the minimum-age filter reads the clock
Tick ==
  /\ now < MaxTime
  /\ config.file_manager_config.minimum_activity_age # {}
  /\ now' = now + 1
  /\ UNCHANGED <<config, remote, edits, downloaded_activities, fs, environ, scheduler>>

\* a call made for the activity in hand: "check" (check_for_activity_changes),
\* "decide" (record_and_retrieve_download_path) or "download" (the write of
\* the metadata, the fetch of a track)
Called(op, ft) == [op |-> op, ft |-> ft]

\* the locals of download_all_activities_iteration as the pass starts
IdlePass ==
  [start |-> 0, current_run_oldest_downloaded_activity_id |-> NoId,
   activities |-> <<>>, i |-> 0, reached_boundary |-> FALSE,
   d |-> 0, s |-> 0, gps_i |-> 0, downloaded_count |-> 0, skipped_count |-> 0]

\* observations of the running (or last) pass: the watermark it started
\* with, how it ended, whether the page in hand held the watermark activity
\* and how many paths it was handed, whether that page is fully processed,
\* the paths handed and the files written in the pass, the last activity a
\* file was written for, and the downloads a rate-limited fetch left unwritten
\* (visited: a later pass went through the activity without requesting it);
\* dropped: the (id, kind) entries of the old ledger that the prescan of the
\* restarted process did not find on disk, kept until the first pass starts;
\* w_at: the place of the watermark activity in the page in hand, 0 if it is
\* not in it; ds: the count d of each activity of the page processed so far;
\* marked: the activities whose files change detection deleted in the pass;
\* seq: the activities of the page in hand in the order their processing
\* began; calls: what was called for the activity in hand, in order;
\* fetches: the page requests of the pass; last_request: the arguments of
\* the last one
NoHist ==
  [w0 |-> NoId, end |-> "none", page_saw_w |-> FALSE, page_d |-> 0,
   page_done |-> FALSE, handed |-> 0, written |-> 0, last_written |-> NoId,
   owed |-> {}, dropped |-> {}, w_at |-> 0, ds |-> <<>>, marked |-> {},
   seq |-> <<>>, calls |-> <<>>, fetches |-> 0,
   last_request |-> [start |-> 0, limit |-> 0]]

\* ------------------------------------------------- ledger specification
\* Any sequence of calls of the FileManager's public methods on the
\* activities of the account, by a caller that may write the file at a path
\* it was handed.

\* the policies of the ledger specification: none, a minimum age, and a
\* start date as the environment gives it
LedgerPolicies ==
  {NoFilter,
   FileManagerConfig({}, {}, {}, {}, {}, {1}),
   FileManagerConfig({}, {}, {}, {Naive(1)}, {}, {})}

\* ret: the call (op, activity, ft), its outcome (tag, path), the instant
\* of the call and what it found: whether the activity was tracked, the kinds it had, the files the
\* call deleted, and the metadata files of the activity that held a payload
\* one field away from the activity's
Call(op, activity, ft, tag, path, da, files, files2) ==
  [op |-> op, activity |-> activity, ft |-> ft, tag |-> tag, path |-> path,
   at |-> now,
   tracked |-> activity.id \in DOMAIN da,
   had |-> IF activity.id \in DOMAIN da THEN da[activity.id].download_file_types ELSE {},
   gone |-> DOMAIN files \ DOMAIN files2,
   prior |-> {p \in DOMAIN files :
                /\ p.dir = ACTIVITY_JSON
                /\ files[p][1][2] = activity.id
                /\ Cardinality({k \in 1..Len(files[p]) :
                                  files[p][k] # dump(activity)[k]}) = 1}]

NoCall == [op |-> "none", activity |-> from_api_response(BasePayload(1)),
           ft |-> ACTIVITY_JSON, tag |-> "none", path |-> NoPath,
           at |-> 0, tracked |-> FALSE, had |-> {}, gone |-> {}, prior |-> {}]

KindsOf(da, id) == IF id \in DOMAIN da THEN da[id].download_file_types ELSE {}

\* one more path handed for the pair
Hand(h, pair) ==
  [q \in DOMAIN h \cup {pair} |->
     (IF q \in DOMAIN h THEN h[q] ELSE 0) + (IF q = pair THEN 1 ELSE 0)]

\* the redownload mark of an activity forgets its pairs
Forget(h, id) == Restrict(h, {q \in DOMAIN h : q[1] # id})

LedgerInit ==
  /\ config \in {Config(1, TRUE, FALSE, fm) : fm \in LedgerPolicies}
  /\ now = NumActs
  /\ remote = [k \in 1..NumActs |-> BasePayload(NumActs + 1 - k)]
  /\ edits = 0
  /\ downloaded_activities = <<>>
  /\ fs = <<>>
  /\ pc = "idle"
  /\ oldest_downloaded_activity_id = NoId
  /\ cron_iteration = 0
  /\ restarts = 0
  /\ pass = IdlePass
  /\ hist = NoHist
  /\ ops = 0
  /\ ret = NoCall
  /\ handed = <<>>
  /\ observed = {}
  /\ environ = GivenEnviron
  /\ scheduler = NoScheduler

\* record_and_retrieve_download_path(logger, activity, file_type)
DecideCall(activity, file_type) ==
  LET r == record_and_retrieve_download_path(downloaded_activities,
             config.file_manager_config, now, activity, file_type)
  IN /\ ops < MaxOps
     /\ ops' = ops + 1
     /\ downloaded_activities' = r.da
     /\ ret' = Call("decide", activity, file_type, r.tag, r.path,
                     downloaded_activities, fs, fs)
     /\ handed' = IF r.tag = "path" THEN Hand(handed, <<activity.id, file_type>>)
                  ELSE handed
     /\ UNCHANGED <<config, envVars, fs, exporterVars, observed>>

\* the caller writes the file it was handed the path of
WriteCall ==
  /\ ret.op = "decide" /\ ret.tag = "path"
  /\ ret.path \notin DOMAIN fs
  /\ fs' = [p \in DOMAIN fs \cup {ret.path} |->
              IF p = ret.path
              THEN (IF ret.ft = ACTIVITY_JSON THEN dump(ret.activity) ELSE GpsBytes(ret.ft))
              ELSE fs[p]]
  /\ UNCHANGED <<config, envVars, downloaded_activities, exporterVars, ledgerCallVars>>

\* mark_activity_as_redownloadable(activity, logger)
MarkCall(activity) ==
  LET r == mark_activity_as_redownloadable(downloaded_activities, fs, activity)
  IN /\ ops < MaxOps
     /\ ops' = ops + 1
     /\ downloaded_activities' = r.da
     /\ fs' = r.fs
     /\ ret' = Call("mark", activity, ACTIVITY_JSON, r.tag, NoPath,
                     downloaded_activities, fs, r.fs)
     /\ handed' = IF r.tag = "ok" THEN Forget(handed, activity.id) ELSE handed
     /\ UNCHANGED <<config, envVars, exporterVars, observed>>

\* check_for_activity_changes(activity, logger)
CheckCall(activity) ==
  LET r == check_for_activity_changes(downloaded_activities, fs, activity)
      marked == KindsOf(downloaded_activities, activity.id) # {}
                  /\ KindsOf(r.da, activity.id) = {}
  IN /\ ops < MaxOps
     /\ ops' = ops + 1
     /\ downloaded_activities' = r.da
     /\ fs' = r.fs
     /\ ret' = Call("check", activity, ACTIVITY_JSON, r.tag, NoPath,
                     downloaded_activities, fs, r.fs)
     /\ handed' = IF marked THEN Forget(handed, activity.id) ELSE handed
     /\ UNCHANGED <<config, envVars, exporterVars, observed>>

\* add_preexisting_file(file_path), for a file found in the directory
PreexistingCall(file_path) ==
  LET r == add_preexisting_file(downloaded_activities, file_path)
  IN /\ ops < MaxOps
     /\ ops' = ops + 1
     /\ downloaded_activities' = r.da
     /\ ret' = [NoCall EXCEPT !.op = "preexisting", !.ft = file_path.dir,
                                !.tag = r.tag, !.path = file_path]
     /\ observed' = observed \cup {file_path}
     /\ UNCHANGED <<config, envVars, fs, exporterVars, handed>>

LedgerEdit == UpstreamEdit /\ UNCHANGED <<exporterVars, ledgerCallVars>>

LedgerTick == Tick /\ UNCHANGED <<exporterVars, ledgerCallVars>>

LedgerDecide == \E k \in 1..Len(remote) : \E ft \in FileType : DecideCall(RemoteActivity(k), ft)

LedgerMark == \E k \in 1..Len(remote) : MarkCall(RemoteActivity(k))

LedgerCheck == \E k \in 1..Len(remote) : CheckCall(RemoteActivity(k))

LedgerPreexisting == \E p \in DOMAIN fs : PreexistingCall(p)

LedgerNext ==
  \/ LedgerDecide
  \/ WriteCall
  \/ LedgerMark
  \/ LedgerCheck
  \/ LedgerPreexisting
  \/ LedgerEdit
  \/ LedgerTick

LedgerSpec == LedgerInit /\ [][LedgerNext]_vars

\* ------------------------------------------------------------ the exporter
\* pc: "idle" (no pass runs: before run_scheduled's first pass or between
\* two triggers), "fetch" (top of the while loop), "json" (top of the for
\* body, up to the activity JSON), "gps" (in the loop over the GPS kinds),
\* "end" (after _maybe_download_activity), "exited" (sys.exit(1)).

\* Exporter._get_activities_batch: api.get_activities(start, limit)
get_activities_batch(feed, start, limit) ==
  LET last == IF start + limit < Len(feed) THEN start + limit ELSE Len(feed)
  IN [k \in 1..(IF last > start THEN last - start ELSE 0) |->
        from_api_response(feed[start + k])]

\* lines 173-174: the first activity of the pass seeds the cursor
seed_cursor(current, activity_id) ==
  IF current = NoId THEN activity_id ELSE current

\* every activity taken for the boundary
boundary_flag_every_activity(reached_boundary, watermark, activity_id) == TRUE

\* lines 176-177: the boundary is the activity of the watermark
boundary_flag(reached_boundary, watermark, activity_id) ==
  IF watermark # NoId /\ activity_id = watermark THEN TRUE ELSE reached_boundary

\* the flag kept whatever was downloaded
clear_boundary_never(reached_boundary, d) == reached_boundary

\* lines 187-189: a download for the activity clears the flag
clear_boundary(reached_boundary, d) ==
  IF d > 0 THEN FALSE ELSE reached_boundary

\* the break of line 196 never taken
stop_never(reached_boundary, always_recheck) == FALSE

\* the break taken whatever ALWAYS_RECHECK_ALL_ACTIVITIES says
stop_whatever_the_flag(reached_boundary, always_recheck) == reached_boundary

\* lines 191-196: break out of the while loop
stop_at_boundary(reached_boundary, always_recheck) ==
  reached_boundary /\ ~always_recheck

\* an offset that stays where it is
next_offset_unmoved(start, batch_size) == start

\* the offset moved by one activity
next_offset_by_one(start, batch_size) == start + 1

\* line 198: start += batch_size
next_offset(start, batch_size) == start + batch_size

\* lines 202-204: the watermark after the loop
watermark_after_loop(watermark, current) ==
  IF current # NoId THEN current ELSE watermark

\* the watermark stored although the fetch raised
watermark_stored_on_raise(watermark, current) ==
  IF current # NoId THEN current ELSE watermark

\* lines 213-217: the rate-limit error leaves the iteration before line 202
watermark_after_rate_limit(watermark, current) == watermark

\* open(path, 'wb').write(data)
WriteFile(files, path, data) ==
  [p \in DOMAIN files \cup {path} |-> IF p = path THEN data ELSE files[p]]

Init ==
  /\ config \in Configs
  /\ remote \in {[k \in 1..n |-> BasePayload(n + 1 - k)] : n \in 1..NumActs}
  /\ now = Len(remote)
  /\ edits = 0
  /\ downloaded_activities = <<>>
  /\ fs = <<>>
  /\ pc = "idle"
  /\ oldest_downloaded_activity_id = NoId
  /\ cron_iteration = 0
  /\ restarts = 0
  /\ pass = IdlePass
  /\ hist = NoHist
  /\ ops = 0
  /\ ret = NoCall
  /\ handed = <<>>
  /\ observed = {}
  /\ environ = GivenEnviron
  /\ scheduler = NoScheduler

\* the pass in hand
Activity == pass.activities[pass.i]

\* _download_all_activities is triggered: lines 144-153
StartPass ==
  /\ pc = "idle"
  /\ cron_iteration < MaxPasses
  /\ cron_iteration' = cron_iteration + 1
  /\ pass' = IdlePass
  /\ pc' = "fetch"
  /\ hist' = [NoHist EXCEPT !.w0 = oldest_downloaded_activity_id,
                            !.end = "running", !.owed = hist.owed]
  /\ UNCHANGED <<config, envVars, downloaded_activities, fs,
                 oldest_downloaded_activity_id, restarts, ledgerCallVars>>

\* lines 202-211, after the loop was left by `how`
FinishPass(how, p) ==
  /\ oldest_downloaded_activity_id' =
       watermark_after_loop(oldest_downloaded_activity_id,
                            p.current_run_oldest_downloaded_activity_id)
  /\ pc' = "idle"
  /\ pass' = IdlePass

\* the observations after api.get_activities(start, batch_size) was called
Requested(h) ==
  [h EXCEPT !.fetches = @ + 1,
            !.last_request = [start |-> pass.start, limit |-> config.batch_size]]

\* lines 160-169: a page is fetched; an empty one ends the pass
FetchPage ==
  /\ pc = "fetch"
  /\ LET activities == get_activities_batch(remote, pass.start, config.batch_size)
     IN IF activities = <<>>
        THEN /\ FinishPass("finished", pass)
             /\ hist' = [Requested(hist) EXCEPT !.end = "finished"]
        ELSE /\ pass' = [pass EXCEPT !.activities = activities, !.i = 1,
                                     !.reached_boundary = FALSE]
             /\ pc' = "json"
             /\ hist' = [Requested(hist) EXCEPT !.page_saw_w = FALSE, !.page_d = 0,
                                     !.page_done = FALSE, !.w_at = 0, !.ds = <<>>,
                                     !.seq = <<>>, !.calls = <<>>]
             /\ UNCHANGED oldest_downloaded_activity_id
  /\ UNCHANGED <<config, envVars, downloaded_activities, fs, cron_iteration,
                 restarts, ledgerCallVars>>

\* GarminConnectTooManyRequestsError leaves the iteration: lines 216-217
RateLimited(da) ==
  /\ oldest_downloaded_activity_id' =
       watermark_after_rate_limit(oldest_downloaded_activity_id,
                                  pass.current_run_oldest_downloaded_activity_id)
  /\ downloaded_activities' = da
  /\ pc' = "idle"
  /\ pass' = IdlePass
  /\ UNCHANGED <<config, envVars, fs, cron_iteration, restarts, ledgerCallVars>>

\* api.get_activities raises the rate-limit error
FetchRateLimited ==
  /\ pc = "fetch"
  /\ RateLimited(downloaded_activities)
  /\ hist' = [Requested(hist) EXCEPT !.end = "rate_limited"]

\* run_scheduled, lines 226-228: the pass of RUN_IMMEDIATELY_ON_STARTUP (the
\* default) is called by the main thread before the scheduler exists, and
\* it is the first of the process; every later pass is a job of the
\* scheduler's ThreadPoolExecutor, lines 232-257
startup_pass(iteration) == iteration = 1

\* sys.exit(1) raises SystemExit(1): in the main thread nothing catches it
\* and the process ends with status 1; in a worker thread of the executor it
\* ends the job, and the process and its scheduler go on
after_sys_exit(iteration) ==
  IF startup_pass(iteration) THEN "exited" ELSE "idle"

\* any other exception: lines 218-220
Fatal(da, files) ==
  /\ pc' = after_sys_exit(cron_iteration)
  /\ pass' = IdlePass
  /\ downloaded_activities' = da
  /\ fs' = files
  /\ hist' = [(IF pc = "fetch" THEN Requested(hist) ELSE hist) EXCEPT !.end = "fatal"]
  /\ UNCHANGED <<config, envVars, oldest_downloaded_activity_id, cron_iteration,
                 restarts, ledgerCallVars>>

\* api.get_activities raises something else than the rate-limit error
FetchFatal ==
  /\ pc = "fetch"
  /\ Fatal(downloaded_activities, fs)

\* lines 173-182 and 117-123: cursor seed, boundary test, change detection,
\* then the activity JSON
ProcessJson ==
  /\ pc = "json"
  /\ LET activity == Activity
         chk == IF config.check_for_activity_changes
                THEN check_for_activity_changes(downloaded_activities, fs, activity)
                ELSE [tag |-> "ok", da |-> downloaded_activities, fs |-> fs]
         r == record_and_retrieve_download_path(chk.da, config.file_manager_config,
                                                now, activity, ACTIVITY_JSON)
         seeded == [pass EXCEPT
                      !.current_run_oldest_downloaded_activity_id =
                         seed_cursor(@, activity.id),
                      !.reached_boundary =
                         boundary_flag(@, oldest_downloaded_activity_id, activity.id)]
         seen == [hist EXCEPT
                    !.page_saw_w = @ \/ (hist.w0 # NoId /\ activity.id = hist.w0),
                    !.w_at = IF hist.w0 # NoId /\ activity.id = hist.w0
                             THEN pass.i ELSE @,
                    !.marked = IF chk.da # downloaded_activities
                               THEN @ \cup {activity.id} ELSE @,
                    !.seq = Append(@, activity.id),
                    !.calls = (IF config.check_for_activity_changes
                               THEN <<Called("check", ACTIVITY_JSON)>> ELSE <<>>)
                              \o <<Called("decide", ACTIVITY_JSON)>>]
     IN IF chk.tag # "ok" THEN Fatal(chk.da, chk.fs)
        ELSE IF r.tag = "path"
        THEN /\ fs' = WriteFile(chk.fs, r.path, dump(activity))
             /\ downloaded_activities' = r.da
             /\ pass' = [seeded EXCEPT !.d = 1, !.s = 0, !.gps_i = 1]
             /\ hist' = [seen EXCEPT !.handed = @ + 1, !.written = @ + 1,
                                     !.last_written = activity.id,
                                     !.calls = Append(@, Called("download", ACTIVITY_JSON))]
             /\ pc' = "gps"
             /\ UNCHANGED <<config, envVars, oldest_downloaded_activity_id,
                            cron_iteration, restarts, ledgerCallVars>>
        ELSE IF r.tag = "None"
        THEN /\ fs' = chk.fs
             /\ downloaded_activities' = r.da
             /\ pass' = [seeded EXCEPT !.d = 0, !.s = 1, !.gps_i = 1]
             /\ hist' = seen
             /\ pc' = "gps"
             /\ UNCHANGED <<config, envVars, oldest_downloaded_activity_id,
                            cron_iteration, restarts, ledgerCallVars>>
        ELSE Fatal(r.da, chk.fs)

\* what api.download_activity can do
FetchOutcomes == {"data", "empty", "rate_limited"}

\* lines 126-133 and 99-110: one GPS kind of the activity
ProcessGps(outcome) ==
  /\ pc = "gps"
  /\ LET activity == Activity
         file_type == gps_file_types[pass.gps_i]
         r == record_and_retrieve_download_path(downloaded_activities,
                config.file_manager_config, now, activity, file_type)
         on == IF pass.gps_i < Len(gps_file_types) THEN "gps" ELSE "end"
         again == {o \in hist.owed : ~(o.id = activity.id /\ o.ft = file_type)}
     IN IF r.tag = "None"
        THEN /\ outcome = "data"
             /\ pass' = [pass EXCEPT !.s = @ + 1, !.gps_i = @ + 1]
             /\ pc' = on
             /\ hist' = [hist EXCEPT !.calls = Append(@, Called("decide", file_type))]
             /\ UNCHANGED <<config, envVars, downloaded_activities, fs,
                            oldest_downloaded_activity_id, cron_iteration,
                            restarts, ledgerCallVars>>
        ELSE IF r.tag # "path" THEN outcome = "data" /\ Fatal(r.da, fs)
        ELSE IF outcome = "rate_limited"
        THEN /\ RateLimited(r.da)
             /\ hist' = [hist EXCEPT !.end = "rate_limited", !.handed = @ + 1,
                           !.owed = again \cup {[id |-> activity.id, ft |-> file_type,
                                                 visited |-> FALSE]}]
        ELSE /\ downloaded_activities' = r.da
             /\ fs' = IF outcome = "data"
                      THEN WriteFile(fs, r.path, GpsBytes(file_type)) ELSE fs
             /\ pass' = [pass EXCEPT !.d = @ + 1, !.gps_i = @ + 1]
             /\ hist' = [hist EXCEPT
                           !.handed = @ + 1,
                           !.written = IF outcome = "data" THEN @ + 1 ELSE @,
                           !.last_written = IF outcome = "data" THEN activity.id ELSE @,
                           !.owed = again,
                           !.calls = @ \o <<Called("decide", file_type),
                                            Called("download", file_type)>>]
             /\ pc' = on
             /\ UNCHANGED <<config, envVars, oldest_downloaded_activity_id,
                            cron_iteration, restarts, ledgerCallVars>>

\* lines 184-200: the counts, the cursor, and after the last activity of
\* the page the boundary stop or the next page
EndActivity ==
  /\ pc = "end"
  /\ LET activity == Activity
         counted == [pass EXCEPT
                       !.downloaded_count = @ + pass.d,
                       !.skipped_count = @ + pass.s,
                       !.current_run_oldest_downloaded_activity_id =
                          IF pass.d > 0 THEN activity.id ELSE @,
                       !.reached_boundary = clear_boundary(@, pass.d)]
         last == pass.i = Len(pass.activities)
         seen == [hist EXCEPT
                    !.page_d = @ + pass.d,
                    !.ds = Append(@, pass.d),
                    !.calls = <<>>,
                    !.page_done = last,
                    !.owed = {IF o.id = activity.id THEN [o EXCEPT !.visited = TRUE]
                              ELSE o : o \in hist.owed}]
     IN IF ~last
        THEN /\ pass' = [counted EXCEPT !.i = @ + 1]
             /\ pc' = "json"
             /\ hist' = seen
             /\ UNCHANGED oldest_downloaded_activity_id
        ELSE IF stop_at_boundary(counted.reached_boundary,
                                 config.always_recheck_all_activities)
        THEN /\ FinishPass("stopped", counted)
             /\ hist' = [seen EXCEPT !.end = "stopped"]
        ELSE /\ pass' = [counted EXCEPT !.start = next_offset(@, config.batch_size)]
             /\ pc' = "fetch"
             /\ hist' = seen
             /\ UNCHANGED oldest_downloaded_activity_id
  /\ UNCHANGED <<config, envVars, downloaded_activities, fs, cron_iteration,
                 restarts, ledgerCallVars>>

\* the process is stopped and started again: Exporter.__init__ builds the
\* ledger from the download directory, lines 44-54
Restart ==
  /\ restarts < MaxRestarts
  /\ restarts' = restarts + 1
  /\ downloaded_activities' = precompute_downloaded_activities(<<>>, DOMAIN fs)
  /\ oldest_downloaded_activity_id' = NoId
  /\ cron_iteration' = 0
  /\ pc' = "idle"
  /\ pass' = IdlePass
  /\ hist' = [NoHist EXCEPT !.dropped =
                {[id |-> id, ft |-> ft] :
                   id \in DOMAIN downloaded_activities, ft \in FileType}
                \cap {d \in [id : DOMAIN downloaded_activities, ft : FileType] :
                        /\ d.ft \in KindsOf(downloaded_activities, d.id)
                        /\ d.ft \notin KindsOf(downloaded_activities', d.id)}]
  /\ UNCHANGED <<config, envVars, fs, ledgerCallVars>>

\* the edits the exporter runs are explored with: the name, which is part of
\* the filename, the heart rate, which is not, and the type when the policy
\* excludes types
ExploredEdit(before, after) ==
  \A k \in 1..Len(before) :
    /\ \/ after[k].typeKey = before[k].typeKey
       \/ config.file_manager_config.excluded_activity_types # {}
    /\ after[k].startTimeGMT = before[k].startTimeGMT
    /\ after[k].hasPolyline = before[k].hasPolyline
    /\ after[k].activityName \in {before[k].activityName, <<"a","/","b">>}

\* the account and the clock move between two passes
Upstream ==
  /\ pc = "idle"
  /\ \/ UpstreamEdit /\ ExploredEdit(remote, remote')
     \/ UpstreamNew
     \/ Tick
  /\ UNCHANGED <<exporterVars, ledgerCallVars>>

Next ==
  \/ StartPass
  \/ FetchPage
  \/ FetchRateLimited
  \/ FetchFatal
  \/ ProcessJson
  \/ \E outcome \in FetchOutcomes : ProcessGps(outcome)
  \/ EndActivity
  \/ Restart
  \/ Upstream

Spec == Init /\ [][Next]_vars

\* ----------------------------------------------------------------- claims
\* what the filters of a policy say of an activity and a kind, each date
\* test on two datetimes python can order
PassesFilters(cfg, now_utc, activity, file_type) ==
  /\ activity.id \notin cfg.excluded_activity_ids
  /\ activity.type \notin cfg.excluded_activity_types
  /\ file_type \notin cfg.excluded_file_types
  /\ \A sd \in cfg.start_date :
       Comparable(activity.start_time_gmt, sd) /\ activity.start_time_gmt.t >= sd.t
  /\ \A ed \in cfg.end_date :
       Comparable(activity.start_time_gmt, ed) /\ activity.start_time_gmt.t <= ed.t
  /\ \A age \in cfg.minimum_activity_age : now_utc - activity.start_time_gmt.t >= age
  /\ (file_type \in {GPX, TCX} => activity.hasPolyline)

\* <download_directory>/<kind>/<file name of the activity and kind>
CanonicalPath(activity, file_type) ==
  MkPath(file_type,
         format_into_filename(ActivityFileManager(activity.id, {file_type}),
                              activity, file_type).name)

\* C1: between two redownload marks of an activity, decide hands out the
\* path of an (activity ID, kind) pair at most once; a decide for a pair not
\* materialized that passes every filter returns the path, and a decide for
\* a pair already handed out returns None.
C1_PathAtMostOnce ==
  /\ \A q \in DOMAIN handed : handed[q] <= 1
  /\ ret.op = "decide" =>
       LET pair == <<ret.activity.id, ret.ft>>
       IN /\ (ret.ft \notin ret.had
              /\ PassesFilters(config.file_manager_config, ret.at, ret.activity, ret.ft))
             => (ret.tag = "path" /\ pair \in DOMAIN handed)
          /\ ret.ft \in ret.had => ret.tag = "None"
          /\ ret.tag = "path" =>
               ret.ft \in KindsOf(downloaded_activities, ret.activity.id)

\* C1 witness: a pair was handed out, and the call after it returned None
C1_Witness ==
  /\ ret.op = "decide" /\ ret.tag = "None"
  /\ <<ret.activity.id, ret.ft>> \in DOMAIN handed
  /\ PassesFilters(config.file_manager_config, ret.at, ret.activity, ret.ft)

\* ------------------------------------------------ decide, one call at a time
\* One call of record_and_retrieve_download_path for every policy, clock,
\* payload and ledger below.

\* the account with at most one field of one activity edited
Accounts ==
  LET base == [k \in 1..NumActs |-> BasePayload(NumActs + 1 - k)]
  IN {base} \cup UNION {{[base EXCEPT ![k] = r] : r \in OneFieldEdits(base[k])} :
                           k \in 1..NumActs}

\* ledgers that track nothing or one activity
SmallLedgers ==
  {<<>>} \cup {[x \in {id} |-> ActivityFileManager(id, S)] :
                 id \in 1..NumActs, S \in {{}, {ACTIVITY_JSON}, {GPX, KML}, FileType}}

DecideInit ==
  /\ config \in {Config(1, TRUE, FALSE, fm) : fm \in EnvPolicies \cup TestPolicies}
  /\ now \in NumActs..MaxTime
  /\ remote \in Accounts
  /\ edits = 0
  /\ downloaded_activities \in SmallLedgers
  /\ fs = <<>>
  /\ pc = "idle"
  /\ oldest_downloaded_activity_id = NoId
  /\ cron_iteration = 0
  /\ restarts = 0
  /\ pass = IdlePass
  /\ hist = NoHist
  /\ ops = 0
  /\ ret = NoCall
  /\ handed = <<>>
  /\ observed = {}
  /\ environ = GivenEnviron
  /\ scheduler = NoScheduler

DecideOnce == ops = 0 /\ LedgerDecide

DecideSpec == DecideInit /\ [][DecideOnce]_vars

\* the skip reasons of the claim, read on the instants
SkipReason(cfg, now_utc, had, activity, file_type) ==
  \/ file_type \in had
  \/ activity.id \in cfg.excluded_activity_ids
  \/ activity.type \in cfg.excluded_activity_types
  \/ file_type \in cfg.excluded_file_types
  \/ \E sd \in cfg.start_date : activity.start_time_gmt.t < sd.t
  \/ \E ed \in cfg.end_date : activity.start_time_gmt.t > ed.t
  \/ \E age \in cfg.minimum_activity_age : now_utc - activity.start_time_gmt.t < age
  \/ (file_type \in {GPX, TCX} /\ ~activity.hasPolyline)

\* the decision table: None exactly for a skip reason, otherwise the kind
\* is added and the canonical path returned
DecisionTable ==
  ret.op = "decide" =>
    LET skip == SkipReason(config.file_manager_config, ret.at, ret.had,
                           ret.activity, ret.ft)
        kinds == KindsOf(downloaded_activities, ret.activity.id)
    IN /\ ret.tag = "None" <=> skip
       /\ skip => kinds = ret.had
       /\ ~skip => /\ ret.tag = "path"
                   /\ kinds = ret.had \cup {ret.ft}
                   /\ ret.path = CanonicalPath(ret.activity, ret.ft)

\* C2: for every activity, kind and filter policy decide returns None
\* exactly when the kind is materialized, the ID, type or kind is excluded,
\* the start is before the start bound or after the end bound, the age is
\* below the minimum age, or the kind is GPX or TCX without a polyline;
\* otherwise it adds the kind and returns downloadRoot/kind/filename.
C2_DecisionTableEveryPolicy == DecisionTable

\* the same table for the policies whose date bounds carry a timezone
DecisionTableAwareBounds ==
  (\A b \in config.file_manager_config.start_date
            \cup config.file_manager_config.end_date : b.aware)
  => DecisionTable

\* C7: when the metadata kind is materialized, its file is on disk and one
\* field of the payload has changed upstream, check_for_activity_changes on
\* the updated activity leaves the materialized set empty and the file
\* written before no longer on disk, whichever field changed.
C7_ChangeDeletesWrittenMetadata ==
  (ret.op = "check" /\ ACTIVITY_JSON \in ret.had /\ ret.prior # {}) =>
    /\ KindsOf(downloaded_activities, ret.activity.id) = {}
    /\ ret.prior \cap DOMAIN fs = {}

\* C8: mark_activity_as_redownloadable on a tracked activity raises nothing,
\* leaves the materialized set empty and leaves no file at the canonical
\* path of any kind that was materialized, whether or not a file was there.
C8_MarkClearsAndDeletes ==
  (ret.op = "mark" /\ ret.tracked) =>
    /\ ret.tag = "ok"
    /\ KindsOf(downloaded_activities, ret.activity.id) = {}
    /\ \A ft \in ret.had : CanonicalPath(ret.activity, ft) \notin DOMAIN fs

\* C8 witness: the mark deleted the file of one kind and met another kind
\* whose file was already missing
C8_Witness ==
  /\ ret.op = "mark" /\ ret.tag = "ok"
  /\ \E ft \in ret.had : CanonicalPath(ret.activity, ft) \in ret.gone
  /\ \E ft \in ret.had : CanonicalPath(ret.activity, ft) \notin ret.gone

\* ------------------------------------------------ claims about the passes
\* the pass has run to the end of its loop
Completed == pc = "idle" /\ hist.end \in {"finished", "stopped"}

C4_NoDownloadKeepsWatermark ==
  (pc = "idle" /\ hist.end \in {"finished", "stopped", "rate_limited"}
   /\ hist.handed = 0)
  => oldest_downloaded_activity_id = hist.w0

\* C5: after a completed pass with at least one download the watermark is
\* the last activity in scan order for which a file was newly downloaded.
C5_WatermarkIsLastDownloaded ==
  (Completed /\ hist.written > 0)
  => oldest_downloaded_activity_id = hist.last_written

\* C6: as the pass completes, every activity the feed lists at or after
\* the watermark is fully processed.
C6_WatermarkInvariant ==
  [][(pc # "idle" /\ pc' = "idle" /\ hist'.end \in {"finished", "stopped"}
      /\ ~config.always_recheck_all_activities
      /\ oldest_downloaded_activity_id' # NoId)
     => \A k \in 1..Len(remote) :
          (\E j \in 1..k : remote[j].activityId = oldest_downloaded_activity_id')
          => \A ft \in FileType :
               PassesFilters(config.file_manager_config, now,
                             from_api_response(remote[k]), ft)
               => ft \in KindsOf(downloaded_activities',
                                 remote[k].activityId)]_vars

\* C9: a rate-limit error ends the pass, the watermark keeps the value it
\* had when the pass started, and the process stays up for the next trigger.
C9_RateLimitEndsPass ==
  hist.end = "rate_limited"
  => (pc = "idle" /\ oldest_downloaded_activity_id = hist.w0)

C9_Witness ==
  /\ hist.end = "rate_limited"
  /\ pc = "idle"
  /\ hist.w0 # NoId
  /\ hist.written > 0

\* C10: a download that was handed a path and then lost to a rate-limit
\* error is requested again by a later pass of the same process: no later
\* pass goes through the activity and leaves the download unrequested.
C10_AbortedDownloadsRetried ==
  \A o \in hist.owed : ~o.visited

\* C11: as a pass ends, completed or aborted by rate limiting, every kind in
\* the materialized set of an activity of the feed has a file at its
\* canonical path.
C11_LedgerConfirmedOnDisk ==
  [][(pc # "idle" /\ pc' = "idle"
      /\ hist'.end \in {"finished", "stopped", "rate_limited"})
     => \A k \in 1..Len(remote) :
          \A ft \in KindsOf(downloaded_activities', remote[k].activityId) :
            CanonicalPath(from_api_response(remote[k]), ft) \in DOMAIN fs']_vars

\* the file name has the form <date>_activity_<id>_...
CarriesId(p, id) ==
  LET parts == Split(p.name)
  IN /\ Len(parts) >= 3
     /\ parts[2] = ACTIVITY_MARKER
     /\ ParseInt(parts[3]).ok
     /\ ParseInt(parts[3]).val = id

\* the process was restarted and has not started a pass yet
AfterRestart == restarts > 0 /\ cron_iteration = 0 /\ pc = "idle"

\* C12: after a restart a kind is materialized for an activity ID iff a
\* file that is not ignored and carries the ID is in the kind's directory;
\* an entry of the old ledger without a file is gone, and decide hands out
\* its path again when the pair passes the filters.
C12_PrescanRebuildsFromDisk ==
  AfterRestart =>
    /\ \A id \in 1..NumActs : \A ft \in FileType :
         ft \in KindsOf(downloaded_activities, id)
         <=> \E p \in DOMAIN fs :
               p.dir = ft /\ ~should_ignore_file(p) /\ CarriesId(p, id)
    /\ \A d \in hist.dropped : \A k \in 1..Len(remote) :
         (/\ remote[k].activityId = d.id
          /\ PassesFilters(config.file_manager_config, now, RemoteActivity(k), d.ft))
         => record_and_retrieve_download_path(downloaded_activities,
              config.file_manager_config, now, RemoteActivity(k), d.ft).tag = "path"

\* C12 witness: the restart dropped an entry, files of other kinds were
\* found, and the dropped pair passes the filters
C12_Witness ==
  /\ AfterRestart
  /\ \E d \in hist.dropped : \E k \in 1..Len(remote) :
       /\ remote[k].activityId = d.id
       /\ KindsOf(downloaded_activities, d.id) # {}
       /\ PassesFilters(config.file_manager_config, now, RemoteActivity(k), d.ft)

\* ------------------------------------------------ the prescan, file by file
\* files found in the download directory when the process starts, each
\* with its bytes: for each activity the metadata and the GPX file under its
\* current name, a metadata file of activity 1 under another name, and a
\* file the scan ignores
FoundFiles ==
  LET renamed == [BasePayload(1) EXCEPT !.activityName = <<"a","/","b">>]
      payloads == {BasePayload(id) : id \in 1..NumActs} \cup {renamed}
  IN {<<CanonicalPath(from_api_response(r), ACTIVITY_JSON),
        dump(from_api_response(r))>> : r \in payloads}
     \cup {<<CanonicalPath(from_api_response(BasePayload(id)), ft), GpsBytes(ft)>> :
             id \in 1..NumActs, ft \in {GPX}}
     \cup {<<MkPath(GPX, <<".","D","S","_","S","t","o","r","e">>), <<>> >>}

PrescanInit ==
  /\ config \in {Config(1, TRUE, FALSE, fm) :
                   fm \in {NoFilter, FileManagerConfig({}, {}, OnlyGpx, {}, {}, {})}}
  /\ now = NumActs
  /\ remote = [k \in 1..NumActs |-> BasePayload(NumActs + 1 - k)]
  /\ edits = 0
  /\ downloaded_activities = <<>>
  /\ fs \in {[p \in {e[1] : e \in S} |-> (CHOOSE e \in S : e[1] = p)[2]] :
               S \in SUBSET FoundFiles}
  /\ pc = "idle"
  /\ oldest_downloaded_activity_id = NoId
  /\ cron_iteration = 0
  /\ restarts = 0
  /\ pass = IdlePass
  /\ hist = NoHist
  /\ ops = 0
  /\ ret = NoCall
  /\ handed = <<>>
  /\ observed = {}
  /\ environ = GivenEnviron
  /\ scheduler = NoScheduler

\* add_preexisting_file for one more file of the directory, in any order
PrescanObserve ==
  /\ ops = 0
  /\ \E file_path \in DOMAIN fs \ observed :
       LET r == add_preexisting_file(downloaded_activities, file_path)
       IN /\ downloaded_activities' = r.da
          /\ ret' = [NoCall EXCEPT !.op = "preexisting", !.ft = file_path.dir,
                                     !.tag = r.tag, !.path = file_path]
          /\ observed' = observed \cup {file_path}
  /\ UNCHANGED <<config, envVars, fs, exporterVars, ops, handed>>

\* the first decide after the files were observed
PrescanDecide == ops = 0 /\ LedgerDecide

PrescanNext ==
  \/ PrescanObserve
  \/ PrescanDecide

PrescanSpec == PrescanInit /\ [][PrescanNext]_vars

\* the kinds of the observed files that are not ignored and carry the ID
ObservedKinds(id) ==
  {p.dir : p \in {q \in observed : ~should_ignore_file(q) /\ CarriesId(q, id)}}

\* C13: after add_preexisting_file was called for a set of well-formed
\* files, in any order, each activity ID has a record exactly when a file
\* of it was observed and the record holds exactly the kinds observed;
\* decide then returns None for an observed kind and a path for any other
\* kind that passes the filters.
C13_PreexistingFilesAccumulate ==
  /\ ops = 0 =>
       \A id \in 1..NumActs :
         /\ KindsOf(downloaded_activities, id) = ObservedKinds(id)
         /\ id \in DOMAIN downloaded_activities <=> ObservedKinds(id) # {}
  /\ ret.op = "decide" =>
       /\ ret.ft \in ObservedKinds(ret.activity.id) => ret.tag = "None"
       /\ (/\ ret.ft \notin ObservedKinds(ret.activity.id)
           /\ PassesFilters(config.file_manager_config, ret.at, ret.activity, ret.ft))
          => ret.tag = "path"

\* C13 witness: three files of two kinds of one activity were observed, and
\* decide returned a path for a kind that was not
C13_Witness ==
  /\ ret.op = "decide"
  /\ ret.tag = "path"
  /\ Cardinality(ObservedKinds(ret.activity.id)) >= 2
  /\ Cardinality({q \in observed : CarriesId(q, ret.activity.id)}) >= 3

\* C14: with ALWAYS_RECHECK_ALL_ACTIVITIES on, a pass never stops at the
\* boundary: after every page it fetches the next one, and it ends only on
\* an empty page or on an error.
C14_AlwaysRecheckNeverStops ==
  config.always_recheck_all_activities =>
    /\ hist.end # "stopped"
    /\ (hist.end = "running" /\ hist.page_done) => pc = "fetch"

\* C14 witness: the flag is on, the page held the watermark activity and
\* handed out nothing, and the pass is about to fetch the next page
C14_Witness ==
  /\ config.always_recheck_all_activities
  /\ hist.end = "running"
  /\ hist.page_done /\ hist.page_saw_w /\ hist.page_d = 0
  /\ pc = "fetch"

\* C15: for an activity without a polyline that is not materialized for
\* the kind and passes every other filter, decide returns None for GPX and
\* TCX and a path for the metadata, KML and CSV.
C15_PolylineGate ==
  (/\ ret.op = "decide"
   /\ ~ret.activity.hasPolyline
   /\ ret.ft \notin ret.had
   /\ PassesFilters(config.file_manager_config, ret.at,
                    [ret.activity EXCEPT !.hasPolyline = TRUE], ret.ft))
  => /\ ret.ft \in {GPX, TCX} => ret.tag = "None"
     /\ ret.ft \in {ACTIVITY_JSON, KML, CSV} => ret.tag = "path"

\* C15 witness: KML handed out for an activity without a polyline
C15_Witness ==
  /\ ret.op = "decide"
  /\ ~ret.activity.hasPolyline
  /\ ret.ft = KML
  /\ ret.tag = "path"

\* ------------------------------------------ claims about single ledger calls
\* the step is a call of check_for_activity_changes / of
\* mark_activity_as_redownloadable
CheckStep == ret'.op = "check" /\ ops' = ops + 1

MarkStep == ret'.op = "mark" /\ ops' = ops + 1

\* C16: check_for_activity_changes returns with the ledger and the files
\* as they were, and with no new record, when the activity has no record,
\* when its record lacks the metadata kind, and when the stored metadata
\* bytes equal the serialization of the activity's payload.
C16_CheckIsNoOp ==
  [][(/\ CheckStep
      /\ \/ ret'.activity.id \notin DOMAIN downloaded_activities
         \/ ACTIVITY_JSON \notin KindsOf(downloaded_activities, ret'.activity.id)
         \/ /\ CanonicalPath(ret'.activity, ACTIVITY_JSON) \in DOMAIN fs
            /\ fs[CanonicalPath(ret'.activity, ACTIVITY_JSON)] = dump(ret'.activity))
     => /\ ret'.tag = "ok"
        /\ downloaded_activities' = downloaded_activities
        /\ fs' = fs]_vars

\* C16 witness: a check of an activity whose metadata and GPX are
\* materialized found the stored bytes equal and changed nothing
C16_Witness ==
  /\ ret.op = "check"
  /\ {ACTIVITY_JSON, GPX} \subseteq ret.had
  /\ KindsOf(downloaded_activities, ret.activity.id) = ret.had
  /\ CanonicalPath(ret.activity, ACTIVITY_JSON) \in DOMAIN fs

\* C17: when the metadata kind is materialized and no file is at the
\* canonical metadata path, check_for_activity_changes raises nothing and
\* leaves the set of the activity empty.
C17_MissingFileIsAChange ==
  (/\ ret.op = "check"
   /\ ACTIVITY_JSON \in ret.had
   /\ CanonicalPath(ret.activity, ACTIVITY_JSON) \notin DOMAIN fs \cup ret.gone)
  => /\ ret.tag = "ok"
     /\ KindsOf(downloaded_activities, ret.activity.id) = {}

\* C17 witness: the metadata file was missing, and a second kind was in the set
C17_Witness ==
  /\ ret.op = "check"
  /\ ACTIVITY_JSON \in ret.had
  /\ ret.had # {ACTIVITY_JSON}
  /\ CanonicalPath(ret.activity, ACTIVITY_JSON) \notin DOMAIN fs \cup ret.gone
  /\ ret.tag = "ok"

\* C18: mark_activity_as_redownloadable(a) leaves the record and the files
\* of every other activity as they were, and decide still returns None for
\* their materialized kinds.
C18_MarkIsSelective ==
  [][MarkStep
     => LET a == ret'.activity.id
        IN /\ DOMAIN downloaded_activities' \ {a} = DOMAIN downloaded_activities \ {a}
           /\ \A id \in DOMAIN downloaded_activities \ {a} :
                downloaded_activities'[id] = downloaded_activities[id]
           /\ \A p \in DOMAIN fs :
                ~CarriesId(p, a) => (p \in DOMAIN fs' /\ fs'[p] = fs[p])
           /\ \A k \in 1..Len(remote) : \A ft \in FileType :
                (/\ remote[k].activityId # a
                 /\ ft \in KindsOf(downloaded_activities, remote[k].activityId))
                => record_and_retrieve_download_path(downloaded_activities',
                     config.file_manager_config, now, RemoteActivity(k), ft).tag
                   = "None"]_vars

\* C18 witness: a mark deleted a file of its activity while another
\* activity has a materialized kind and its file
C18_Witness ==
  /\ ret.op = "mark"
  /\ ret.gone # {}
  /\ \E id \in DOMAIN downloaded_activities :
       /\ id # ret.activity.id
       /\ downloaded_activities[id].download_file_types # {}
       /\ \E p \in DOMAIN fs : CarriesId(p, id)

\* C19: mark_activity_as_redownloadable of an activity without a record
\* raises an error and leaves the ledger and the files as they were.
C19_MarkUntrackedFails ==
  [][(MarkStep /\ ret'.activity.id \notin DOMAIN downloaded_activities)
     => /\ ret'.tag = "ValueError"
        /\ downloaded_activities' = downloaded_activities
        /\ fs' = fs]_vars

\* C19 witness: the mark of an untracked activity failed while another
\* activity was tracked and had a file
C19_Witness ==
  /\ ret.op = "mark"
  /\ ~ret.tracked
  /\ ret.tag = "ValueError"
  /\ downloaded_activities # <<>>
  /\ fs # <<>>

\* ------------------------------------------------------ the filename codec
\* names: plain, with a character that is dropped, with a path separator,
\* with spaces inside and around, with nothing that is kept, empty, with a
\* dot and an underscore, one character longer than the cut, with a
\* backslash and a hyphen, and with a space where the cut falls
CodecNames ==
  Names \cup {<<" ","a"," ","b"," ">>, <<"!","?">>, <<>>, <<"a","_","b",".","x">>,
              [i \in 1..(MaxNameLen + 1) |-> "a"],
              <<"a","\\","b","-","c">>,
              [i \in 1..(MaxNameLen + 2) |-> IF i = MaxNameLen THEN " " ELSE "a"]}

\* type keys, one with an underscore (as in trail_running)
CodecTypes == Types \cup {<<"r","_","n">>}

\* IDs and start times of one and of two digits
CodecNumbers == {1, 2, 12}

CodecPayloads ==
  {[activityId |-> id, activityName |-> n, typeKey |-> ty, startTimeGMT |-> t,
    hasPolyline |-> TRUE, averageHR |-> 0] :
     id \in CodecNumbers, n \in CodecNames, ty \in CodecTypes, t \in CodecNumbers}

\* an activity and a kind to name a file for
CodecInit ==
  /\ config = Config(1, TRUE, FALSE, NoFilter)
  /\ now = 0
  /\ remote \in {<<r>> : r \in CodecPayloads}
  /\ edits = 0
  /\ downloaded_activities = <<>>
  /\ fs = <<>>
  /\ pc = "idle"
  /\ oldest_downloaded_activity_id = NoId
  /\ cron_iteration = 0
  /\ restarts = 0
  /\ pass = IdlePass
  /\ hist = NoHist
  /\ ops = 0
  /\ ret \in {[NoCall EXCEPT !.op = "input", !.ft = ft] : ft \in FileType}
  /\ handed = <<>>
  /\ observed = {}
  /\ environ = GivenEnviron
  /\ scheduler = NoScheduler

\* format_into_filename from the record that holds the kind; a file of
\* that name is written in the kind's directory
CodecEncode ==
  /\ ret.op = "input"
  /\ LET activity == RemoteActivity(1)
         f == format_into_filename(ActivityFileManager(activity.id, {ret.ft}),
                                   activity, ret.ft)
     IN /\ f.ok
        /\ fs' = WriteFile(fs, MkPath(ret.ft, f.name), <<>>)
        /\ ret' = [ret EXCEPT !.op = "encode", !.activity = activity,
                              !.path = MkPath(ret.ft, f.name)]
  /\ UNCHANGED <<config, envVars, downloaded_activities, exporterVars, ops,
                 handed, observed>>

\* create_from_file_path of the file written; the record it returns is kept
CodecDecode ==
  /\ ret.op = "encode"
  /\ LET made == create_from_file_path(ret.path, ret.ft)
     IN /\ downloaded_activities' =
             IF made.ok THEN [x \in {made.afm.activity_id} |-> made.afm] ELSE <<>>
        /\ ret' = [ret EXCEPT !.op = "decode",
                              !.tag = IF made.ok THEN "ok" ELSE "ValueError"]
  /\ UNCHANGED <<config, envVars, fs, exporterVars, ops, handed, observed>>

\* format_into_filename again, from the decoded record
CodecReencode ==
  /\ ret.op = "decode"
  /\ ret.tag = "ok"
  /\ LET got == retrieve_download_path(downloaded_activities, ret.activity, ret.ft)
     IN ret' = [ret EXCEPT !.op = "reencode", !.path = got.path,
                           !.tag = IF got.ok THEN "ok" ELSE "ValueError"]
  /\ UNCHANGED <<config, envVars, downloaded_activities, fs, exporterVars, ops,
                 handed, observed>>

CodecNext ==
  \/ CodecEncode
  \/ CodecDecode
  \/ CodecReencode

CodecSpec == CodecInit /\ [][CodecNext]_vars

\* C20: decoding the filename that format_into_filename produced for an
\* activity and a kind yields a record with the activity's ID and exactly
\* that kind, and formatting again from that record yields the same filename.
C20_FilenameRoundTrip ==
  /\ ret.op = "decode" =>
       /\ ret.tag = "ok"
       /\ DOMAIN downloaded_activities = {ret.activity.id}
       /\ downloaded_activities[ret.activity.id]
            = ActivityFileManager(ret.activity.id, {ret.ft})
  /\ ret.op = "reencode" =>
       /\ ret.tag = "ok"
       /\ DOMAIN fs = {ret.path}

\* C20 witness: the round trip of a two-digit ID, a type key with an
\* underscore and a name that is cut
C20_Witness ==
  /\ ret.op = "reencode"
  /\ ret.activity.id = 12
  /\ ret.activity.type = <<"r","_","n">>
  /\ Len(ret.activity.name) > MaxNameLen
  /\ ret.path \in DOMAIN fs

\* ------------------------------------------- load the configuration, decide
\* main() loads the Config from the environment, the Exporter builds its
\* FileManager from it, and decide is called once.

\* a,b: the values joined by a comma and a blank
CommaList(a, b) == a \o <<",", " ">> \o b

\* environments that depart from GivenEnviron in one or two variables
Environs ==
  LET e == GivenEnviron
  IN {e}
     \cup {[e EXCEPT !.GARMIN_USERNAME = <<>>], [e EXCEPT !.BATCH_SIZE = <<"x">>],
           [e EXCEPT !.BATCH_SIZE = <<"2">>,
                     !.ALWAYS_RECHECK_ALL_ACTIVITIES = <<"O","n">>],
           [e EXCEPT !.CHECK_FOR_ACTIVITY_CHANGES = <<"0">>]}
     \cup {[e EXCEPT !.EXCLUDED_ACTIVITY_IDS = v] :
             v \in {<<"1">>, CommaList(<<"1">>, <<"2">>), <<"1", ",", "x">>}}
     \cup {[e EXCEPT !.EXCLUDED_ACTIVITY_TYPES = v] :
             v \in {TypeCycling, CommaList(TypeRun, TypeCycling)}}
     \cup {[e EXCEPT !.EXCLUDED_FILE_TYPES = v] :
             v \in {FileTypeValue(GPX),
                    CommaList(FileTypeValue(TCX), FileTypeValue(KML)),
                    FileTypeValue(ACTIVITY_JSON),
                    CommaList(FileTypeValue(GPX), FileTypeValue(ACTIVITY_JSON)),
                    CommaList(FileTypeValue(CSV), <<"f","i","t">>)}}
     \cup {[e EXCEPT !.START_DATE = v] : v \in {<<"2">>, <<"x">>}}
     \cup {[e EXCEPT !.END_DATE = <<"1">>]}
     \cup {[e EXCEPT !.MIN_ACTIVITY_AGE = v] : v \in {<<"1">>, <<"x">>, <<"-","1">>}}
     \cup {[e EXCEPT !.GARMIN_PASSWORD = <<>>]}
     \cup {[e EXCEPT !.CRON_SCHEDULE = v] :
             v \in {<<"\"">> \o DefaultCron \o <<"\"">>, <<"'">> \o DefaultCron \o <<"'">>,
                    <<"x">>, <<"0"," ","*">>,
                    <<"*","/","5"," ","1","-","2"," ","*"," ","*"," ","1",",","2">>}}
     \cup {[e EXCEPT !.REQUEST_DELAY_SECONDS = v] :
             v \in {<<"x">>, <<"0",".","5">>, <<"1",".","2",".","3">>}}
     \cup {[e EXCEPT !.END_DATE = <<"x">>],
           [e EXCEPT !.START_DATE = <<"x">>, !.END_DATE = <<"y">>]}
     \cup {[e EXCEPT !.EXCLUDED_FILE_TYPES = FileTypeValue(CSV),
                     !.MIN_ACTIVITY_AGE = <<"2">>]}

ConfigInit ==
  /\ environ \in Environs
  /\ scheduler = NoScheduler
  /\ config = Config(1, TRUE, FALSE, NoFilter)
  /\ now \in NumActs..MaxTime
  /\ remote \in Accounts
  /\ edits = 0
  /\ downloaded_activities \in
       {<<>>, [x \in {1} |-> ActivityFileManager(1, {ACTIVITY_JSON})]}
  /\ fs = <<>>
  /\ pc = "main"
  /\ oldest_downloaded_activity_id = NoId
  /\ cron_iteration = 0
  /\ restarts = 0
  /\ pass = IdlePass
  /\ hist = NoHist
  /\ ops = 0
  /\ ret = NoCall
  /\ handed = <<>>
  /\ observed = {}

\* main(): Config.from_environment(), and sys.exit(1) on ValueError
LoadConfig ==
  /\ pc = "main"
  /\ LET loaded == from_environment(environ)
     IN IF loaded.ok
        THEN config' = loaded.val /\ pc' = "idle"
        ELSE config' = config /\ pc' = "exited"
  /\ UNCHANGED <<envVars, downloaded_activities, fs, oldest_downloaded_activity_id,
                 cron_iteration, restarts, pass, hist, ledgerCallVars>>

\* one decide on the ledger of the loaded configuration
ConfigDecide == pc = "idle" /\ ops = 0 /\ LedgerDecide

ConfigNext == LoadConfig \/ ConfigDecide

ConfigSpec == ConfigInit /\ [][ConfigNext]_vars

\* C21: decide never raises: for every activity built from an API response
\* and every filter policy Config.from_environment can produce, START_DATE
\* or END_DATE set included, a skip is reported by returning None and no
\* exception reaches the caller.
C21_DecideNeverRaises ==
  ret.op = "decide" => ret.tag \in {"path", "None"}

\* the tokens of EXCLUDED_FILE_TYPES name the metadata kind
ExcludesMetadata(env) ==
  \E i \in 1..Len(StrippedTokens(env.EXCLUDED_FILE_TYPES)) :
    StrippedTokens(env.EXCLUDED_FILE_TYPES)[i] = FileTypeValue(ACTIVITY_JSON)

\* C22: the metadata kind can never be excluded by policy: loading rejects
\* an excluded-kind list that contains activity_json, no loaded
\* configuration excludes the kind, and a decide for the metadata kind that
\* no other test skips returns the path whatever the excluded kinds are.
C22_MetadataNeverExcluded ==
  /\ (pc # "main" /\ ExcludesMetadata(environ)) => pc = "exited"
  /\ pc = "idle" => ACTIVITY_JSON \notin config.file_manager_config.excluded_file_types
  /\ (ret.op = "decide" /\ ret.ft = ACTIVITY_JSON /\ ACTIVITY_JSON \notin ret.had
      /\ PassesFilters([config.file_manager_config EXCEPT !.excluded_file_types = {}],
                       ret.at, ret.activity, ACTIVITY_JSON))
     => ret.tag = "path"

\* C22 witness: an environment that lists activity_json next to another
\* kind was rejected
C22_Witness ==
  /\ pc = "exited"
  /\ environ.EXCLUDED_FILE_TYPES = CommaList(FileTypeValue(GPX), FileTypeValue(ACTIVITY_JSON))

\* ------------------------------------------------- run_scheduled, threads
\* Exporter.run_scheduled with the threads it sets to work. A pass is seen
\* from outside: it begins (line 145), runs its loop, where it may download
\* and may raise, and stores the watermark (lines 202-204). scheduler.passes
\* maps each thread inside download_all_activities_iteration to [at, cursor],
\* cursor being its current_run_oldest_downloaded_activity_id.
\* scheduler.phase: "enter", "startup" (lines 226-271), "started"
\* (scheduler.start() blocks), "shutting_down" (signal_handler waits in
\* scheduler.shutdown(wait=True)), "stopped" (sys.exit(0)), "exited"
\* (sys.exit(1) in the main thread), "killed" (a signal before the handlers
\* of lines 269-271 are installed).

\* the call of line 228 started the pass in the background
startup_in_background(passes) == TRUE

\* line 228 is a plain call: run_scheduled goes on when the pass returned
startup_returned(passes) == MainThread \notin DOMAIN passes

\* the job count of the scheduler admits one more instance
may_submit(instances) == instances < max_instances

\* the thread leaves the pass
LeavePass(th) ==
  [scheduler EXCEPT
     !.passes = Restrict(@, DOMAIN @ \ {th}),
     !.instances = IF th = MainThread THEN @ ELSE @ - 1]

SchedInit ==
  /\ config \in {Config(1, TRUE, FALSE, NoFilter)}
  /\ environ = GivenEnviron
  /\ scheduler \in {[NoScheduler EXCEPT !.run_immediately = b] : b \in BOOLEAN}
  /\ remote = [k \in 1..NumActs |-> BasePayload(NumActs + 1 - k)]
  /\ now = NumActs
  /\ edits = 0
  /\ downloaded_activities = <<>>
  /\ fs = <<>>
  /\ pc = "idle"
  /\ oldest_downloaded_activity_id = NoId
  /\ cron_iteration = 0
  /\ restarts = 0
  /\ pass = IdlePass
  /\ hist = NoHist
  /\ ops = 0
  /\ ret = NoCall
  /\ handed = <<>>
  /\ observed = {}

schedVars ==
  <<config, environ, now, remote, edits, downloaded_activities, fs, pc, restarts,
    pass, hist, ledgerCallVars>>

\* lines 224-228: the startup pass, called by the main thread
RunScheduled ==
  /\ scheduler.phase = "enter"
  /\ scheduler' =
       [scheduler EXCEPT
          !.phase = "startup",
          !.passes = IF scheduler.run_immediately
                     THEN [th \in {MainThread} |-> [at |-> "begin", cursor |-> NoId]]
                     ELSE @]
  /\ UNCHANGED <<schedVars, oldest_downloaded_activity_id, cron_iteration>>

\* lines 230-280: the scheduler is built, the job added, the handlers
\* installed, and scheduler.start() blocks
StartScheduler ==
  /\ scheduler.phase = "startup"
  /\ startup_returned(scheduler.passes)
  /\ scheduler' = [scheduler EXCEPT !.phase = "started"]
  /\ UNCHANGED <<schedVars, oldest_downloaded_activity_id, cron_iteration>>

\* the cron trigger fires: the job is submitted to the executor unless
\* max_instances of it are submitted or running, and then the run is skipped
TriggerFires ==
  /\ scheduler.phase = "started"
  /\ scheduler.fired < MaxTriggers
  /\ scheduler' =
       IF may_submit(scheduler.instances)
       THEN [scheduler EXCEPT !.fired = @ + 1, !.instances = @ + 1, !.queued = @ + 1]
       ELSE [scheduler EXCEPT !.fired = @ + 1, !.skipped = @ + 1]
  /\ UNCHANGED <<schedVars, oldest_downloaded_activity_id, cron_iteration>>

\* a free thread of the executor takes the submitted job
WorkerTakesJob ==
  /\ scheduler.queued > 0
  /\ scheduler.phase \in {"started", "shutting_down"}
  /\ \E w \in Workers \ DOMAIN scheduler.passes :
       scheduler' =
         [scheduler EXCEPT
            !.queued = @ - 1,
            !.passes = [th \in DOMAIN @ \cup {w} |->
                          IF th = w THEN [at |-> "begin", cursor |-> NoId] ELSE @[th]]]
  /\ UNCHANGED <<schedVars, oldest_downloaded_activity_id, cron_iteration>>

\* line 145
PassBegin(th) ==
  /\ th \in DOMAIN scheduler.passes
  /\ scheduler.passes[th].at = "begin"
  /\ cron_iteration' = cron_iteration + 1
  /\ scheduler' = [scheduler EXCEPT !.passes[th].at = "loop"]
  /\ UNCHANGED <<schedVars, oldest_downloaded_activity_id>>

\* what a turn of the loop of lines 155-200 comes to
LoopOutcomes == {"download", "leave", "rate_limited", "error"}

\* lines 155-200 and 213-220
PassLoop(th, outcome) ==
  /\ th \in DOMAIN scheduler.passes
  /\ scheduler.passes[th].at = "loop"
  /\ CASE outcome = "download" ->
            \E id \in 1..NumActs :
              /\ id # scheduler.passes[th].cursor
              /\ scheduler' = [scheduler EXCEPT !.passes[th].cursor = id]
       [] outcome = "leave" ->
            scheduler' = [scheduler EXCEPT !.passes[th].at = "store"]
       [] outcome = "rate_limited" ->
            scheduler' = LeavePass(th)
       [] outcome = "error" ->
            scheduler' =
              IF th = MainThread
              THEN [scheduler EXCEPT !.phase = "exited", !.passes = <<>>]
              ELSE LeavePass(th)
  /\ UNCHANGED <<schedVars, oldest_downloaded_activity_id, cron_iteration>>

\* lines 202-211
PassStore(th) ==
  /\ th \in DOMAIN scheduler.passes
  /\ scheduler.passes[th].at = "store"
  /\ oldest_downloaded_activity_id' =
       watermark_after_loop(oldest_downloaded_activity_id, scheduler.passes[th].cursor)
  /\ scheduler' = LeavePass(th)
  /\ UNCHANGED <<schedVars, cron_iteration>>

\* SIGTERM, SIGINT or SIGHUP: signal_handler once it is installed, the
\* default action before
Signal ==
  /\ scheduler.phase \in {"enter", "startup", "started"}
  /\ scheduler' =
       IF scheduler.phase = "started"
       THEN [scheduler EXCEPT !.phase = "shutting_down"]
       ELSE [scheduler EXCEPT !.phase = "killed", !.passes = <<>>]
  /\ UNCHANGED <<schedVars, oldest_downloaded_activity_id, cron_iteration>>

\* lines 265-267: shutdown(wait=True) returned, sys.exit(0)
ShutdownDone ==
  /\ scheduler.phase = "shutting_down"
  /\ scheduler.passes = <<>> /\ scheduler.queued = 0
  /\ scheduler' = [scheduler EXCEPT !.phase = "stopped"]
  /\ UNCHANGED <<schedVars, oldest_downloaded_activity_id, cron_iteration>>

SchedNext ==
  \/ RunScheduled
  \/ StartScheduler
  \/ TriggerFires
  \/ WorkerTakesJob
  \/ \E th \in {MainThread} \cup Workers : PassBegin(th)
  \/ \E th \in {MainThread} \cup Workers : \E outcome \in LoopOutcomes :
       PassLoop(th, outcome)
  \/ \E th \in {MainThread} \cup Workers : PassStore(th)
  \/ Signal
  \/ ShutdownDone

SchedSpec == SchedInit /\ [][SchedNext]_vars

\* C23: at most one export pass executes at any time: the startup pass has
\* finished when the scheduler starts, and a trigger that fires while a pass
\* runs never starts a second pass, so no two threads are ever inside a pass
\* that mutates the ledger and the watermark.
C23_OnePassAtATime ==
  /\ Cardinality(DOMAIN scheduler.passes) <= 1
  /\ scheduler.instances <= 1
  /\ scheduler.phase \in {"started", "shutting_down", "stopped"}
       => MainThread \notin DOMAIN scheduler.passes

\* C23 witness: a trigger fired while a pass was running and was skipped,
\* and that pass is still running
C23_Witness ==
  /\ scheduler.skipped > 0
  /\ \E th \in DOMAIN scheduler.passes : scheduler.passes[th].at = "loop"

\* the downloads counted for the activities of the page from place k on
RECURSIVE DownloadsFrom(_, _)
DownloadsFrom(ds, k) ==
  IF k > Len(ds) THEN 0 ELSE ds[k] + DownloadsFrom(ds, k + 1)

\* C24: if the boundary activity, the one whose ID is the watermark the pass
\* started with, gets a download in the pass, the boundary is cleared: once
\* its page is processed the pass has not stopped at it and is at the fetch
\* of the next page, until that fetch ends the pass or gives a page.
C24_DownloadedBoundaryIsCleared ==
  (hist.page_done /\ hist.w_at > 0 /\ hist.ds[hist.w_at] > 0)
  => /\ hist.end # "stopped"
     /\ hist.end = "running" => (pc = "fetch" /\ pass.start >= config.batch_size)

\* C24 witness: early stops are on, the boundary activity was downloaded
\* again, and the pass is about to fetch the page after it
C24_Witness ==
  /\ hist.page_done /\ hist.w_at > 0 /\ hist.ds[hist.w_at] > 0
  /\ ~config.always_recheck_all_activities
  /\ DownloadsFrom(hist.ds, hist.w_at + 1) = 0
  /\ pc = "fetch"

C26_CountedOnlyIfWritten ==
  pc = "end" =>
    /\ pass.d > 0 => hist.last_written = Activity.id
    /\ pass.downloaded_count + pass.d = hist.written

\* the step that completes a pass
Completes ==
  pc # "idle" /\ pc' = "idle" /\ hist'.end \in {"finished", "stopped"}

\* the metadata file of the k-th activity of the feed holds its payload
MetadataOnDisk(files, k) ==
  LET path == CanonicalPath(RemoteActivity(k), ACTIVITY_JSON)
  IN path \in DOMAIN files /\ files[path] = dump(RemoteActivity(k))

HealsUnlessFiltered ==
  [][Completes =>
       \A k \in 1..Len(remote) :
         (/\ remote[k].activityId \in hist'.marked
          /\ PassesFilters(config.file_manager_config, now, RemoteActivity(k),
                           ACTIVITY_JSON))
         => MetadataOnDisk(fs', k)]_vars

\* the kinds of the decide calls of a call sequence, in order
DecidedKinds(calls) ==
  LET decides == SelectSeq(calls, LAMBDA c : c.op = "decide")
  IN [k \in 1..Len(decides) |-> decides[k].ft]

\* C28: within a pass the activities of a page are processed in page order,
\* one at a time; for each activity change detection, when enabled, runs
\* before any decide, and decide plus download are attempted for the kinds
\* in the order metadata, GPX, TCX, KML, CSV, each kind at most once.
C28_OrderedProcessing ==
  pc \in {"gps", "end"} =>
    LET calls == hist.calls
        kinds == DecidedKinds(calls)
    IN /\ hist.seq = [k \in 1..pass.i |-> pass.activities[k].id]
       /\ kinds = SubSeq(FileTypeOrder, 1, Len(kinds))
       /\ pc = "end" => kinds = FileTypeOrder
       /\ calls[1].op = (IF config.check_for_activity_changes THEN "check" ELSE "decide")
       /\ \A k \in 2..Len(calls) :
            /\ calls[k].op # "check"
            /\ calls[k].op = "download" => calls[k - 1] = Called("decide", calls[k].ft)

\* C28 witness: the second activity of a page is done: change detection
\* first, then five decides, two of them followed by a download
C28_Witness ==
  /\ pc = "end" /\ pass.i = 2
  /\ Len(hist.calls) = 8
  /\ hist.calls[1].op = "check"

\* C29: the n-th page request of a pass, n = 0, 1, 2, ..., has offset n
\* times the batch size and limit the batch size; the first empty page ends
\* the pass: no activity is processed and no further page is requested.
C29_PageRequests ==
  [][hist'.fetches = hist.fetches + 1 =>
       /\ pc = "fetch" /\ hist.end = "running"
       /\ hist'.last_request = [start |-> hist.fetches * config.batch_size,
                                limit |-> config.batch_size]
       /\ (/\ get_activities_batch(remote, hist'.last_request.start,
                                   hist'.last_request.limit) = <<>>
           /\ hist'.end \notin {"rate_limited", "fatal"})
          => /\ pc' = "idle" /\ hist'.end = "finished"
             /\ UNCHANGED <<downloaded_activities, fs>>]_vars

\* C29 witness: with pages of two activities the second request, at offset
\* 2, gave the empty page and the pass finished
C29_Witness ==
  /\ hist.end = "finished" /\ pc = "idle"
  /\ hist.fetches = 2
  /\ hist.last_request = [start |-> 2, limit |-> 2]

\* C30: if anything other than the rate-limit error is raised during a
\* pass, the exporter takes the fatal path, the process exits with status 1,
\* and the watermark is not updated by that pass.
C30_OtherErrorsExitTheProcess ==
  hist.end = "fatal"
  => (pc = "exited" /\ oldest_downloaded_activity_id = hist.w0)

\* the part of it about the watermark
FatalKeepsWatermark ==
  hist.end = "fatal" => oldest_downloaded_activity_id = hist.w0

\* the part of it about the process, for the pass run at startup
FatalStartupPassExits ==
  (hist.end = "fatal" /\ startup_pass(cron_iteration)) => pc = "exited"

\* ------------------------------------------------- decide that returns None
\* the step is a call of record_and_retrieve_download_path
DecideStep == ret'.op = "decide" /\ ops' = ops + 1

\* C31: a decide that returns None leaves the ledger as it was (no record
\* is created, no kind is added), and a mark of the activity that follows
\* a None for an activity without a record fails as not tracked.
C31_NoneLeavesLedger ==
  [][/\ (DecideStep /\ ret'.tag = "None")
          => downloaded_activities' = downloaded_activities
     /\ (/\ ret.op = "decide" /\ ret.tag = "None" /\ ~ret.tracked
         /\ MarkStep /\ ret'.activity.id = ret.activity.id)
          => /\ ret'.tag = "ValueError"
             /\ ret'.activity.id \notin DOMAIN downloaded_activities']_vars

\* C31 witness: an activity without a record was filtered out by a test
\* other than the first while another activity was tracked, and calls
\* can still follow
C31_Witness ==
  /\ ret.op = "decide" /\ ret.tag = "None" /\ ~ret.tracked
  /\ ret.activity.id \notin DOMAIN downloaded_activities
  /\ downloaded_activities # <<>>
  /\ ops < MaxOps

\* --------------------------------------------------- one file per activity
\* C32: in every state reached through passes of the exporter, a kind
\* directory holds at most one file per activity ID.
C32_OneFilePerActivity ==
  \A p \in DOMAIN fs : \A q \in DOMAIN fs :
    (p.dir = q.dir /\ \E id \in 1..(NumActs + MaxEdits) : CarriesId(p, id) /\ CarriesId(q, id))
      => p = q

\* ------------------------------------------------------------ termination
\* The loop of download_all_activities_iteration with the answers of the
\* ledger and of the service as inputs: whatever _maybe_download_activity
\* does for an activity, it returns its two counts or raises.

\* the configurations of the termination check: both batch sizes, with and
\* without the boundary stop
LiveConfigs ==
  {Config(b, TRUE, a, FileManagerConfig({}, {}, OnlyGpx, {}, {}, {})) :
     b \in 1..2, a \in BOOLEAN}

LiveInit == Init /\ config \in LiveConfigs

\* the files _maybe_download_activity counts for one activity: none, one,
\* or one per kind
DownloadCounts == {0, 1, Cardinality(FileType)}

\* what the call for one activity comes to
ActivityOutcomes == {"returned", "rate_limited", "fatal"}

\* lines 173-182 and 112-135 for the activity in hand: cursor seed and
\* boundary test, then _maybe_download_activity returns (d, s) or raises
MaybeDownload(outcome, d) ==
  /\ pc = "json"
  /\ LET activity == Activity
         seeded == [pass EXCEPT
                      !.current_run_oldest_downloaded_activity_id =
                         seed_cursor(@, activity.id),
                      !.reached_boundary =
                         boundary_flag(@, oldest_downloaded_activity_id, activity.id)]
     IN IF outcome = "rate_limited"
        THEN /\ RateLimited(downloaded_activities)
             /\ hist' = [hist EXCEPT !.end = "rate_limited"]
        ELSE IF outcome = "fatal"
        THEN Fatal(downloaded_activities, fs)
        ELSE /\ pass' = [seeded EXCEPT !.d = d, !.s = Cardinality(FileType) - d]
             /\ pc' = "end"
             /\ UNCHANGED <<config, envVars, downloaded_activities, fs,
                            oldest_downloaded_activity_id, cron_iteration,
                            restarts, hist, ledgerCallVars>>

\* a step of the pass in hand: the thread that runs
\* download_all_activities_iteration goes on until the function returns or
\* raises, and every call it makes returns or raises
PassStep ==
  \/ FetchPage
  \/ FetchRateLimited
  \/ FetchFatal
  \/ \E outcome \in ActivityOutcomes : \E d \in DownloadCounts : MaybeDownload(outcome, d)
  \/ EndActivity

\* the account grows between two passes
LiveUpstream ==
  /\ pc = "idle"
  /\ UpstreamNew
  /\ UNCHANGED <<exporterVars, ledgerCallVars>>

LiveNext ==
  \/ StartPass
  \/ PassStep
  \/ LiveUpstream

\* the passes of one process, none of them left halfway
LiveSpec == LiveInit /\ [][LiveNext]_vars /\ WF_vars(PassStep)

\* a pass is in hand
InPass == pc \in {"fetch", "json", "gps", "end"}

\* the page requests that reach the end of a feed of n activities
PagesOf(n, batch_size) == (n + batch_size - 1) \div batch_size + 1

\* C33: a pass in hand reaches its end (completed, stopped at the boundary
\* or aborted), and it never makes more page requests than the pages of the
\* finite feed and the empty page behind them.
C33_PassTerminates ==
  /\ [][hist'.fetches <= PagesOf(Len(remote'), config'.batch_size)]_vars
  /\ (InPass ~> ~InPass)

\* C33 witness: a pass over more than one page was completed by the empty
\* page
C33_Witness ==
  /\ hist.end = "finished"
  /\ ~InPass
  /\ hist.fetches = PagesOf(Len(remote), config.batch_size)
  /\ hist.fetches >= 3

\* ------------------------------------------- files found in the directory
\* a name as a sequence of characters
Chars(str) ==
  CASE str = "fit" -> <<"f","i","t">>
    [] str = "1_activity_1_r_run.gpx" ->
         <<"1","_","a","c","t","i","v","i","t","y","_","1","_","r","_","r","u","n",".","g","p","x">>
    [] str = "1_activity_2_r_run.json" ->
         <<"1","_","a","c","t","i","v","i","t","y","_","2","_","r","_","r","u","n",".","j","s","o","n">>
    [] str = "x_y_1.gpx" -> <<"x","_","y","_","1",".","g","p","x">>
    [] str = "1_activity_x_r.gpx" ->
         <<"1","_","a","c","t","i","v","i","t","y","_","x","_","r",".","g","p","x">>
    [] str = "1_activity_1.gpx" ->
         <<"1","_","a","c","t","i","v","i","t","y","_","1",".","g","p","x">>
    [] str = "1_activity.gpx" -> <<"1","_","a","c","t","i","v","i","t","y",".","g","p","x">>
    [] str = "run.gpx" -> <<"r","u","n",".","g","p","x">>
    [] str = ".DS_Store" -> <<".","D","S","_","S","t","o","r","e">>
    [] str = "Thumbs.db" -> <<"T","h","u","m","b","s",".","d","b">>
    [] str = ".gitkeep" -> <<".","g","i","t","k","e","e","p">>
    [] str = ".gitignore" -> <<".","g","i","t","i","g","n","o","r","e">>
    [] str = "1_activity_1_r_run.tmp" ->
         <<"1","_","a","c","t","i","v","i","t","y","_","1","_","r","_","r","u","n",".","t","m","p">>
    [] str = "a.TEMP" -> <<"a",".","T","E","M","P">>
    [] str = "a.Swp" -> <<"a",".","S","w","p">>
    [] str = "1_activity_1_r_run.gpx.BAK" ->
         <<"1","_","a","c","t","i","v","i","t","y","_","1","_","r","_","r","u","n",".","g","p","x",".","B","A","K">>

\* files of activities, named as format_into_filename names them
KeptNames == {"1_activity_1_r_run.gpx", "1_activity_2_r_run.json"}

\* files that are none of the exporter's: the second token is not the
\* marker, the third is not a number, there is no third, no underscore
StrayNames ==
  {"x_y_1.gpx", "1_activity_x_r.gpx", "1_activity_1.gpx", "1_activity.gpx", "run.gpx"}

\* the names and the extensions should_ignore_file knows, in some cases
JunkNames ==
  {".DS_Store", "Thumbs.db", ".gitkeep", ".gitignore", "1_activity_1_r_run.tmp",
   "a.TEMP", "a.Swp", "1_activity_1_r_run.gpx.BAK"}

\* the directories of download_directory.glob('*/*'): two kinds and one
\* that is no kind
FoundDirs == {GPX, ACTIVITY_JSON, "fit"}

\* the paths the glob can yield
FoundPaths ==
  {MkPath(dir, Chars(n)) : dir \in FoundDirs, n \in KeptNames \cup StrayNames \cup JunkNames}

FoundInit ==
  /\ LedgerInit
  /\ config \in {Config(1, TRUE, FALSE, fm) : fm \in {NoFilter}}

\* add_preexisting_file(file_path) for a path of the glob
FoundCall == \E file_path \in FoundPaths : PreexistingCall(file_path)

FoundNext ==
  \/ FoundCall
  \/ LedgerDecide

FoundSpec == FoundInit /\ [][FoundNext]_vars

\* the step is a call of add_preexisting_file
PreexistingStep == ret'.op = "preexisting" /\ ops' = ops + 1

\* the defects of a path the claim lists: the parent directory is no kind,
\* the extension is not the suffix of the kind, the second token is not the
\* marker, the third token is not a run of digits
Malformed(file_path) ==
  LET parts == Split(file_path.name)
  IN \/ file_path.dir \notin FileType
     \/ PathSuffix(file_path.name) # <<".">> \o Suffix(file_path.dir)
     \/ Len(parts) < 2
     \/ parts[2] # ACTIVITY_MARKER
     \/ Len(parts) < 3
     \/ \E i \in 1..Len(parts[3]) : ~IsDigit(parts[3][i])

\* C34: add_preexisting_file of a path that is not ignored and has one of
\* the defects raises an error and leaves the ledger as it was.
C34_MalformedPathRaises ==
  [][(PreexistingStep /\ ~should_ignore_file(ret'.path) /\ Malformed(ret'.path))
       => /\ ret'.tag = "ValueError"
          /\ downloaded_activities' = downloaded_activities]_vars

\* C34 witness: the call raised for a file in a kind's directory with the
\* extension of another kind, while the ledger tracked an activity
C34_Witness ==
  /\ ret.op = "preexisting" /\ ret.tag = "ValueError"
  /\ ret.path.dir = ACTIVITY_JSON
  /\ PathSuffix(ret.path.name) = <<".">> \o Suffix(GPX)
  /\ ~should_ignore_file(ret.path)
  /\ downloaded_activities # <<>>

\* ------------------------------------------------ formatting never fails
\* the ValueError of format_into_filename reached through a ledger call:
\* decide and check raise nothing else of that type, mark raises it also
\* for an activity without a record
FormatFailed ==
  /\ ret.tag = "ValueError"
  /\ \/ ret.op \in {"decide", "check"}
     \/ ret.op = "mark" /\ ret.tracked

\* C35: format_into_filename fails exactly when the record's ID is not the
\* activity's or the kind is not in the record's set, and no call of
\* decide, mark_activity_as_redownloadable or check_for_activity_changes
\* meets that failure: every record is stored under its own ID and a path
\* is formatted only for a kind of the record.
C35_FormatNeverFails ==
  /\ ~FormatFailed
  /\ \A id \in DOMAIN downloaded_activities :
       /\ downloaded_activities[id].activity_id = id
       /\ \A k \in 1..Len(remote) : \A ft \in FileType :
            format_into_filename(downloaded_activities[id], RemoteActivity(k), ft).ok
              <=> /\ RemoteActivity(k).id = id
                  /\ ft \in downloaded_activities[id].download_file_types

\* C35 witness: a mark formatted the paths of the two kinds of a tracked
\* activity
C35_Witness ==
  /\ ret.op = "mark" /\ ret.tracked /\ ret.tag = "ok"
  /\ Cardinality(ret.had) >= 2

\* ------------------------------------------------------------- junk files
\* the path has one of the junk names or extensions
IsJunk(file_path) == \E n \in JunkNames : file_path.name = Chars(n)

\* what decide returns under the policy without filters
UnfilteredDecision(da, activity, file_type) ==
  IF file_type \in KindsOf(da, activity.id) THEN "None"
  ELSE IF file_type \in {GPX, TCX} /\ ~activity.hasPolyline THEN "None"
  ELSE "path"

\* C36: add_preexisting_file of a junk path returns without error and
\* leaves the ledger as it was, whatever the parent directory; decide
\* returns what the ledger and the policy say, whatever junk was seen, and
\* never the path of a file the junk test ignores.
C36_JunkIsSkipped ==
  [][/\ (PreexistingStep /\ IsJunk(ret'.path))
          => /\ ret'.tag = "ok"
             /\ downloaded_activities' = downloaded_activities
     /\ DecideStep
          => /\ ret'.tag = UnfilteredDecision(downloaded_activities,
                                             ret'.activity, ret'.ft)
             /\ ret'.tag = "path" => ~IsJunk(ret'.path)]_vars

\* C36 witness: a junk file with an upper-case extension, in a directory
\* that is no kind, was skipped while the ledger tracked an activity
C36_Witness ==
  /\ ret.op = "preexisting" /\ ret.tag = "ok"
  /\ ret.path.dir \notin FileType
  /\ PathSuffix(ret.path.name) = <<".","B","A","K">>
  /\ downloaded_activities # <<>>

\* ------------------------------------------------- configuration errors
\* every token of a comma-separated value is a run of digits / the value
\* of a kind
AllTokens(env_value, P(_)) ==
  LET toks == StrippedTokens(env_value) IN \A i \in 1..Len(toks) : P(toks[i])

RunOfDigits(tok) == tok # <<>> /\ \A i \in 1..Len(tok) : IsDigit(tok[i])

KindToken(tok) == \E ft \in FileType : FileTypeValue(ft) = tok

\* the defects of an environment the claim lists
Defective(env) ==
  \/ env.GARMIN_USERNAME = <<>>
  \/ env.GARMIN_PASSWORD = <<>>
  \/ has_quotes(env.CRON_SCHEDULE)
  \/ ~croniter_accepts(env.CRON_SCHEDULE)
  \/ ~RunOfDigits(env.BATCH_SIZE)
  \/ ~float_accepts(env.REQUEST_DELAY_SECONDS)
  \/ ~AllTokens(env.EXCLUDED_ACTIVITY_IDS, RunOfDigits)
  \/ ~AllTokens(env.EXCLUDED_FILE_TYPES, KindToken)
  \/ (env.MIN_ACTIVITY_AGE # <<>> /\ ~RunOfDigits(env.MIN_ACTIVITY_AGE))

\* C37: with a credential missing, a cron schedule that is invalid or
\* holds quotes, a BATCH_SIZE that is no integer, a REQUEST_DELAY_SECONDS
\* that is no number, an excluded ID that is no integer, an unknown excluded
\* file type, or a MIN_ACTIVITY_AGE that is negative or cannot be read, the
\* program is in main() or has exited: no configuration was loaded, no
\* exporter exists and no ledger call or pass was made.
C37_BadEnvironmentExits ==
  Defective(environ) =>
    /\ pc \in {"main", "exited"}
    /\ config = Config(1, TRUE, FALSE, NoFilter)
    /\ ops = 0 /\ cron_iteration = 0 /\ ret = NoCall

\* C37 witness: the program has exited on a negative MIN_ACTIVITY_AGE
C37_Witness ==
  /\ pc = "exited"
  /\ environ.MIN_ACTIVITY_AGE = <<"-", "1">>
  /\ ~Defective([environ EXCEPT !.MIN_ACTIVITY_AGE = <<>>])

\* ------------------------------------------------------ unparseable dates
\* the variable is set and strptime reads it in neither format
Unparseable(env_value) == env_value # <<>> /\ ~RunOfDigits(env_value)

\* the environment sets no filter but the dates
OnlyDates(env) ==
  /\ env.EXCLUDED_ACTIVITY_IDS = <<>> /\ env.EXCLUDED_ACTIVITY_TYPES = <<>>
  /\ env.EXCLUDED_FILE_TYPES = <<>> /\ env.MIN_ACTIVITY_AGE = <<>>

\* C38: a START_DATE or END_DATE that cannot be parsed does not make the
\* loading fail; the bound is unset in the loaded configuration, and with
\* no other date bound and no other filter decide skips only what is
\* already downloaded or lacks a polyline.
C38_UnparseableDateIsUnset ==
  (pc # "main" /\ ~Defective(environ)) =>
    /\ Unparseable(environ.START_DATE) =>
         pc # "exited" /\ config.file_manager_config.start_date = {}
    /\ Unparseable(environ.END_DATE) =>
         pc # "exited" /\ config.file_manager_config.end_date = {}
    /\ (/\ ret.op = "decide" /\ OnlyDates(environ)
        /\ Unparseable(environ.START_DATE) \/ Unparseable(environ.END_DATE)
        /\ environ.START_DATE = <<>> \/ Unparseable(environ.START_DATE)
        /\ environ.END_DATE = <<>> \/ Unparseable(environ.END_DATE))
         => ret.tag = IF \/ ret.ft \in ret.had
                         \/ ret.ft \in {GPX, TCX} /\ ~ret.activity.hasPolyline
                      THEN "None" ELSE "path"

\* C38 witness: with both dates unparseable a decide returned a path
C38_Witness ==
  /\ Unparseable(environ.START_DATE) /\ Unparseable(environ.END_DATE)
  /\ ret.op = "decide" /\ ret.tag = "path"

\* ------------------------------------------------- the sanitized component
\* what the tests of _sanitize_filename_component and the claim expect of
\* the names of the codec specification
ExpectedComponent(name) ==
  CASE name = <<"r","u","n">> -> <<"r","u","n">>
    [] name = <<"r","u","n","!">> -> <<"r","u","n">>
    [] name = <<"a","/","b">> -> <<"a","_","b">>
    [] name = <<" ","a"," ","b"," ">> -> <<"a","_","b">>
    [] name = <<"!","?">> -> <<"u","n","n","a","m","e","d">>
    [] name = <<>> -> <<"u","n","n","a","m","e","d">>
    [] name = <<"a","_","b",".","x">> -> <<"a","_","b","x">>
    [] name = <<"a","\\","b","-","c">> -> <<"a","_","b","-","c">>
    [] Len(name) = 51 -> [i \in 1..50 |-> "a"]
    [] Len(name) = 52 -> [i \in 1..50 |-> IF i = 50 THEN "_" ELSE "a"]

\* C39: the sanitized component of an activity name is never empty, has at
\* most 50 characters, all of them alphanumeric, hyphens or underscores,
\* and is the name with separators turned into underscores, other
\* characters removed, outer spaces trimmed, inner spaces turned into
\* underscores, cut at 50, or 'unnamed' when nothing is left.
C39_SanitizedComponent ==
  LET name == RemoteActivity(1).name
      safe == sanitize_filename_component(name)
  IN /\ safe # <<>>
     /\ Len(safe) <= 50
     /\ \A i \in 1..Len(safe) : IsAlnum(safe[i]) \/ safe[i] \in {"-", "_"}
     /\ safe = ExpectedComponent(name)

\* C39 witness: a file was named for an activity whose name is longer than
\* the cut and has a space where the cut falls
C39_Witness ==
  /\ ret.op = "encode"
  /\ Len(ret.activity.name) > MaxNameLen
  /\ ret.activity.name[MaxNameLen] = " "
  /\ Len(ret.path.name) > MaxNameLen

====
